---- MODULE Spec2Model ----
(***************************************************************************)
(* Verification model of the crawl-enrich-publish pipeline.                *)
(*                                                                         *)
(*   Part I   crawler.Scraper.Enrich and its worker pool                   *)
(*            (dispatcher goroutine, articleWorker goroutines, the shared  *)
(*            ticker and the cancellation context).                        *)
(*   Part II  publishers.LoadRegistry / ConfigRegistry.Enabled / BuildAll  *)
(*            (configuration loading and sink construction).               *)
(***************************************************************************)
EXTENDS Integers, Sequences, FiniteSets, TLC

(***************************************************************************)
(* Bounds of the model.                                                    *)
(***************************************************************************)
\* longest article slice handed to Enrich
MaxArticles == 3
\* ticks the shared ticker may fire during one Enrich call
MaxTicks == 3
\* size of the worker pool.  The source sets maxArticleWorkers = 10; the
\* pool logic is parametric in it and the model runs it with a pool of 2 so
\* that slices both shorter and longer than the pool are explored.
maxArticleWorkers == 2

Min(a, b) == IF a < b THEN a ELSE b

(***************************************************************************)
(* Strings and URLs.                                                       *)
(*   A URL string is modelled by its components; NoURL is the empty string.*)
(***************************************************************************)
NoURL == [scheme |-> "", host |-> "", path |-> ""]

ArticleURL(i) == [scheme |-> "https", host |-> "news.example", path |-> <<"a", i>>]

\* host names as written in a resolved absolute URL
ToLowerHost(h) == IF h = "news.example" THEN "NEWS.EXAMPLE" ELSE h

\* sha1 hex digest of the URL: a tagged value, so that an id is a function of
\* the URL string only and differs from the URL itself
hashURL(u) == <<"sha1", u>>

\* net/url: a reference with a scheme is absolute
IsAbs(u) == u.scheme # ""

\* url.URL.ResolveReference for the reference shapes the pages produce
ResolveReference(base, ref) ==
    IF ref.scheme # "" THEN ref
    ELSE IF ref.host # "" THEN [ref EXCEPT !.scheme = base.scheme]
    ELSE [scheme |-> base.scheme, host |-> base.host, path |-> ref.path]

\* texts url.Parse rejects: a path with an invalid percent escape
ParseFails(raw) == Len(raw.path) = 3 /\ raw.path[2] = "100%"

\* url.Parse of a text it accepts: the scheme is lower-cased
LowerScheme(scheme) == IF scheme = "HTTPS" THEN "https" ELSE scheme

Parse(raw) == [raw EXCEPT !.scheme = LowerScheme(@)]

\* faulty variant of resolveURL: the extracted value is stored as it stands
resolveURLKeepRaw(raw, base) == raw

\* resolveURL: the text of the parsed URL when it is absolute, of the
\* reference resolved against base when it is not; raw when raw or base does
\* not parse
resolveURL(raw, base) ==
    IF raw = NoURL THEN NoURL
    ELSE IF ParseFails(raw) THEN raw
    ELSE IF IsAbs(Parse(raw)) THEN Parse(raw)
    ELSE IF ParseFails(base) THEN raw
    ELSE ResolveReference(Parse(base), Parse(raw))

(***************************************************************************)
(* domain.Article and the input of Enrich.                                 *)
(***************************************************************************)
InputArticle(i) ==
    [ID          |-> hashURL(ArticleURL(i)),
     Title       |-> IF i % 2 = 1 THEN "feed title" ELSE "",
     URL         |-> ArticleURL(i),
     Description |-> "",
     ImageURL    |-> IF i % 2 = 1
                     THEN [scheme |-> "https", host |-> "img.example", path |-> <<"f", i>>]
                     ELSE NoURL,
     Keywords    |-> <<"k", i>>,
     PublishedAt |-> i]

\* domain.Article{}
ZeroArticle ==
    [ID |-> <<>>, Title |-> "", URL |-> NoURL, Description |-> "", ImageURL |-> NoURL,
     Keywords |-> <<>>, PublishedAt |-> 0]

(***************************************************************************)
(* The HTTP collaborator: what client.Get may return for a page, and what  *)
(* parseMeta extracts from the body.                                       *)
(***************************************************************************)
NoMeta == [Title |-> "", Description |-> "", ImageURL |-> NoURL]

FullMeta == [Title |-> "page title", Description |-> "page description",
             ImageURL |-> [scheme |-> "", host |-> "", path |-> <<"i", 0>>]]

TransportError == [err |-> TRUE,  status |-> 0,   parseErr |-> FALSE, meta |-> NoMeta]
Status404      == [err |-> FALSE, status |-> 404, parseErr |-> FALSE, meta |-> NoMeta]
BadHTML        == [err |-> FALSE, status |-> 200, parseErr |-> TRUE,  meta |-> NoMeta]
GoodPage       == [err |-> FALSE, status |-> 200, parseErr |-> FALSE, meta |-> FullMeta]

Responses == {TransportError, Status404, BadHTML, GoodPage}

\* parseMeta: (pageMeta, error)
parseMeta(resp) == [meta |-> resp.meta, err |-> resp.parseErr]

StatusOK == 200

\* faulty variant of fetchAndParse: the id is recomputed from the URL as rewritten
\* after a successful scrape
fetchAndParseRehash(art, resp) ==
    IF resp.err THEN [art |-> art, err |-> TRUE]
    ELSE IF resp.status # StatusOK THEN [art |-> art, err |-> TRUE]
    ELSE IF parseMeta(resp).err THEN [art |-> art, err |-> TRUE]
    ELSE LET m  == parseMeta(resp).meta
             u1 == IF m.Title # "" THEN [art EXCEPT !.Title = m.Title] ELSE art
             u2 == IF m.Description # ""
                   THEN [u1 EXCEPT !.Description = m.Description] ELSE u1
             u3 == IF m.ImageURL # NoURL
                   THEN [u2 EXCEPT !.ImageURL = resolveURL(m.ImageURL, art.URL)]
                   ELSE u2
             nu == [art.URL EXCEPT !.host = ToLowerHost(art.URL.host)]
         IN [art |-> [u3 EXCEPT !.URL = nu, !.ID = hashURL(nu)], err |-> FALSE]

\* fetchAndParse after client.Get has returned resp: (article, error)
fetchAndParse(art, resp) ==
    IF resp.err THEN [art |-> art, err |-> TRUE]
    ELSE IF resp.status # StatusOK THEN [art |-> art, err |-> TRUE]
    ELSE LET pm == parseMeta(resp) IN
         IF pm.err THEN [art |-> art, err |-> TRUE]
         ELSE LET m  == pm.meta
                  u1 == IF m.Title # "" THEN [art EXCEPT !.Title = m.Title] ELSE art
                  u2 == IF m.Description # ""
                        THEN [u1 EXCEPT !.Description = m.Description] ELSE u1
                  u3 == IF m.ImageURL # NoURL
                        THEN [u2 EXCEPT !.ImageURL = resolveURL(m.ImageURL, art.URL)]
                        ELSE u2
              IN [art |-> u3, err |-> FALSE]

(***************************************************************************)
(* State.  Part I: one Enrich call.                                        *)
(***************************************************************************)
VARIABLES
    articles,     \* input slice
    delay,        \* cfg.RequestDelay()
    ctxDone,      \* the cancellation signal has fired
    out,          \* result slice
    epc,          \* position of the goroutine running Enrich
    idx,          \* loop variable of the dispatch loop (0-based)
    jobClosed,    \* close(jobCh) has run
    wpc,          \* position of each articleWorker
    wjob,         \* index held by each worker (0-based), -1 when none
    wres,         \* (article, error) returned by fetchAndParse to each worker
    wread,        \* history: state of ctx when the worker's response was read
    limiterTick,  \* a tick is buffered in ticker.C
    ticksFired,   \* history: ticks the ticker has fired
    tickerOn,     \* ticker created and not stopped
    fetchCount,   \* history: calls of client.Get so far
    log           \* history: per index, what happened to it

evars == <<articles, delay, ctxDone, out, epc, idx, jobClosed, wpc, wjob, wres, wread,
           limiterTick, ticksFired, tickerOn, fetchCount, log>>

\* state of startup wiring (Part II)
VARIABLES
    ppc,        \* "start", "loaded", "loadFailed", "built"
    pfile,      \* decoded publishers file
    reg,        \* entries of the loaded ConfigRegistry
    loadErr,    \* error returned by LoadRegistry
    loadAt,     \* index of the entry LoadRegistry rejected, 0 when none
    bcfgs,      \* configs handed to BuildAll
    bsdk,       \* SDK outcome per config
    pubs,       \* publishers returned by BuildAll
    buildErr    \* error returned by BuildAll

pvars == <<ppc, pfile, reg, loadErr, loadAt, bcfgs, bsdk, pubs, buildErr>>

\* state of one provider fetch (Part III)
VARIABLES
    fpc,        \* "start", "fetch", "resolve", "build", "done"
    freg,       \* fetchers the registry was built from
    fcfg,       \* Provider configuration being fetched
    ffetcher,   \* fetcher returned by FetcherFor
    fstack,     \* active calls of fetchGoogleNewsURLs, innermost last
    fvisited,   \* the visited map shared by those calls
    furls,      \* entries returned by the outermost fetchGoogleNewsURLs
    fitems,     \* articles returned by Fetch
    ferr,       \* error returned by FetcherFor or Fetch, "" when nil
    freq        \* history: sitemap URLs requested, in order, with the outcome

fvars == <<fpc, freg, fcfg, ffetcher, fstack, fvisited, furls, fitems, ferr, freq>>

\* state of the crawl cycles of one provider (Part IV)
VARIABLES
    cpc,        \* step of the provider's cycle
    cyc,        \* index of the running cycle
    dedupe,     \* TRUE: persistent seen store, FALSE: the no-op store
    sinks,      \* active sinks, in fan-out order
    citems,     \* items of the running cycle
    cadmitted,  \* items admitted by FILTER in the running cycle
    cpos,       \* fan-out position: <<item index, sink index>>
    seen,       \* ids in the seen store
    lastPub,    \* history: the last Publish call
    cdeliv,     \* history: per sink and item, Publish calls and deliveries
    chanded,    \* history: items handed to fan-out in the running cycle
    creturned   \* history: per cycle, the ids the source returned

cvars == <<cpc, cyc, dedupe, sinks, citems, cadmitted, cpos, seen, lastPub, cdeliv,
           chanded, creturned>>

\* state of one overlay computation (Part V)
VARIABLES
    opc,        \* "start", "done"
    oart,       \* article handed to fetchAndParse
    oresp,      \* response of client.Get
    ores        \* (article, error) returned by fetchAndParse

ovars == <<opc, oart, oresp, ores>>

\* everything but Part I / Part II
nvars == <<fvars, cvars, ovars>>

\* ids a worker goroutine can have: the pool is never larger than the slice
Workers == 1 .. MaxArticles

\* faulty variant of workerCount: one worker per article, no cap
workerCountUncapped == Len(articles)

workerCount == Min(Len(articles), maxArticleWorkers)

NoResult == [art |-> ZeroArticle, err |-> TRUE]

CtxNow == IF ctxDone THEN "cancelled" ELSE "live"

\* history kept per index:
\*   handed  times the index was sent over jobCh
\*   recv    state of ctx when a worker received it
\*   start   state of ctx when client.Get was called for it
\*   result  "fail" / "ok": what fetchAndParse returned for it
\*   writes  times a worker wrote its slot
\*   across  its response was read before cancellation and written after
NoLog == [handed |-> 0, recv |-> "-", start |-> "-", result |-> "-",
          writes |-> 0, across |-> FALSE]

InitEnrich ==
    /\ articles \in {[i \in 1 .. n |-> InputArticle(i)] : n \in 0 .. MaxArticles}
    /\ delay \in {0, 1}
    /\ ctxDone = FALSE
    /\ out = <<>>
    /\ epc = "call"
    /\ idx = 0
    /\ jobClosed = FALSE
    /\ wpc = [w \in Workers |-> "idle"]
    /\ wjob = [w \in Workers |-> -1]
    /\ wres = [w \in Workers |-> NoResult]
    /\ wread = [w \in Workers |-> "-"]
    /\ limiterTick = FALSE
    /\ ticksFired = 0
    /\ tickerOn = FALSE
    /\ fetchCount = 0
    /\ log = [i \in 1 .. Len(articles) |-> NoLog]

\* ctx is cancelled (deadline or explicit stop); may happen at any moment
Cancel ==
    /\ ~ctxDone
    /\ ctxDone' = TRUE
    /\ UNCHANGED <<articles, delay, out, epc, idx, jobClosed, wpc, wjob, wres, wread,
                   limiterTick, ticksFired, tickerOn, fetchCount, log>>
    /\ UNCHANGED <<pvars, nvars>>

\* Enrich, lines 44-68: copy the input, return at once for an empty slice,
\* create the ticker when delay > 0, start workerCount workers
EnrichStart ==
    /\ epc = "call"
    /\ out' = articles
    /\ IF Len(articles) = 0
       THEN /\ epc' = "returned"
            /\ UNCHANGED <<wpc, tickerOn>>
       ELSE /\ epc' = "loop"
            /\ tickerOn' = (delay > 0)
            /\ wpc' = [w \in Workers |-> IF w <= workerCount THEN "recv" ELSE "idle"]
    /\ UNCHANGED <<articles, delay, ctxDone, idx, jobClosed, wjob, wres, wread,
                   limiterTick, ticksFired, fetchCount, log>>
    /\ UNCHANGED <<pvars, nvars>>

\* faulty variant of DispatchCheck: the loop head does not look at ctx
DispatchCheckNoCtx ==
    /\ epc = "loop"
    /\ IF idx < Len(articles)
       THEN /\ epc' = "send"
            /\ UNCHANGED jobClosed
       ELSE /\ epc' = "wait"
            /\ jobClosed' = TRUE
    /\ UNCHANGED <<articles, delay, ctxDone, out, idx, wpc, wjob, wres, wread,
                   limiterTick, ticksFired, tickerOn, fetchCount, log>>
    /\ UNCHANGED <<pvars, nvars>>

\* Enrich, lines 70-73 and 76: loop head of the dispatch loop; on exit the
\* job channel is closed
DispatchCheck ==
    /\ epc = "loop"
    /\ IF idx < Len(articles) /\ ~ctxDone
       THEN /\ epc' = "send"
            /\ UNCHANGED jobClosed
       ELSE /\ epc' = "wait"
            /\ jobClosed' = TRUE
    /\ UNCHANGED <<articles, delay, ctxDone, out, idx, wpc, wjob, wres, wread,
                   limiterTick, ticksFired, tickerOn, fetchCount, log>>
    /\ UNCHANGED <<pvars, nvars>>

\* faulty variant of Handoff: the loop variable does not advance, so the
\* same index is sent again
HandoffRepeat(w) ==
    /\ epc = "send"
    /\ wpc[w] = "recv"
    /\ \A v \in Workers : v < w => wpc[v] # "recv"
    /\ wjob' = [wjob EXCEPT ![w] = idx]
    /\ wpc' = [wpc EXCEPT ![w] = "check"]
    /\ log' = [log EXCEPT ![idx + 1].handed = @ + 1, ![idx + 1].recv = CtxNow]
    /\ epc' = "loop"
    /\ UNCHANGED <<articles, delay, ctxDone, out, idx, jobClosed, wres, wread,
                   limiterTick, ticksFired, tickerOn, fetchCount>>
    /\ UNCHANGED <<pvars, nvars>>

\* jobCh <- idx (line 74) meeting a worker's receive in `for idx := range
\* jobCh` (line 96): jobCh is unbuffered, so the send completes only together
\* with a receive.  The workers waiting in the receive are in the same local
\* state and differ only in the workerID they log, so the lowest-numbered of
\* them stands for whichever one the runtime wakes.
Handoff(w) ==
    /\ epc = "send"
    /\ wpc[w] = "recv"
    /\ \A v \in Workers : v < w => wpc[v] # "recv"
    /\ wjob' = [wjob EXCEPT ![w] = idx]
    /\ wpc' = [wpc EXCEPT ![w] = "check"]
    /\ log' = [log EXCEPT ![idx + 1].handed = @ + 1, ![idx + 1].recv = CtxNow]
    /\ idx' = idx + 1
    /\ epc' = "loop"
    /\ UNCHANGED <<articles, delay, ctxDone, out, jobClosed, wres, wread,
                   limiterTick, ticksFired, tickerOn, fetchCount>>
    /\ UNCHANGED <<pvars, nvars>>

\* range over the closed, drained channel ends; the deferred wg.Done runs
WorkerDrained(w) ==
    /\ wpc[w] = "recv"
    /\ jobClosed
    /\ wpc' = [wpc EXCEPT ![w] = "done"]
    /\ UNCHANGED <<articles, delay, ctxDone, out, epc, idx, jobClosed, wjob, wres, wread,
                   limiterTick, ticksFired, tickerOn, fetchCount, log>>
    /\ UNCHANGED <<pvars, nvars>>

\* faulty variant of WorkerCheck: the ctx.Err() check after a receive is missing
WorkerCheckNoCtx(w) ==
    /\ wpc[w] = "check"
    /\ wpc' = [wpc EXCEPT ![w] = IF delay > 0 THEN "limit" ELSE "fetch"]
    /\ UNCHANGED <<articles, delay, ctxDone, out, epc, idx, jobClosed, wjob, wres, wread,
                   limiterTick, ticksFired, tickerOn, fetchCount, log>>
    /\ UNCHANGED <<pvars, nvars>>

\* articleWorker, lines 97-101: ctx.Err() check, then the limiter test
WorkerCheck(w) ==
    /\ wpc[w] = "check"
    /\ IF ctxDone
       THEN /\ wpc' = [wpc EXCEPT ![w] = "done"]
            /\ wjob' = [wjob EXCEPT ![w] = -1]
       ELSE /\ wpc' = [wpc EXCEPT ![w] = IF delay > 0 THEN "limit" ELSE "fetch"]
            /\ UNCHANGED wjob
    /\ UNCHANGED <<articles, delay, ctxDone, out, epc, idx, jobClosed, wres, wread,
                   limiterTick, ticksFired, tickerOn, fetchCount, log>>
    /\ UNCHANGED <<pvars, nvars>>

\* articleWorker, lines 102-106: select between ctx.Done() and the limiter;
\* when both are ready the runtime picks either
WorkerSelectDone(w) ==
    /\ wpc[w] = "limit"
    /\ ctxDone
    /\ wpc' = [wpc EXCEPT ![w] = "done"]
    /\ wjob' = [wjob EXCEPT ![w] = -1]
    /\ UNCHANGED <<articles, delay, ctxDone, out, epc, idx, jobClosed, wres, wread,
                   limiterTick, ticksFired, tickerOn, fetchCount, log>>
    /\ UNCHANGED <<pvars, nvars>>

\* faulty variant of WorkerSelectTick: the tick is seen but not taken from ticker.C
WorkerSelectTickKeep(w) ==
    /\ wpc[w] = "limit"
    /\ limiterTick
    /\ wpc' = [wpc EXCEPT ![w] = "fetch"]
    /\ UNCHANGED <<articles, delay, ctxDone, out, epc, idx, jobClosed, wjob, wres, wread,
                   limiterTick, ticksFired, tickerOn, fetchCount, log>>
    /\ UNCHANGED <<pvars, nvars>>

WorkerSelectTick(w) ==
    /\ wpc[w] = "limit"
    /\ limiterTick
    /\ limiterTick' = FALSE
    /\ wpc' = [wpc EXCEPT ![w] = "fetch"]
    /\ UNCHANGED <<articles, delay, ctxDone, out, epc, idx, jobClosed, wjob, wres, wread,
                   ticksFired, tickerOn, fetchCount, log>>
    /\ UNCHANGED <<pvars, nvars>>

\* the ticker fires; ticker.C holds one tick, a tick that finds it full is
\* dropped
Tick ==
    /\ tickerOn
    /\ ticksFired < MaxTicks
    /\ ticksFired' = ticksFired + 1
    /\ limiterTick' = TRUE
    /\ UNCHANGED <<articles, delay, ctxDone, out, epc, idx, jobClosed, wpc, wjob,
                   wres, wread, tickerOn, fetchCount, log>>
    /\ UNCHANGED <<pvars, nvars>>

\* articleWorker line 110 -> fetchAndParse line 134: client.Get is called
FetchStart(w) ==
    /\ wpc[w] = "fetch"
    /\ wpc' = [wpc EXCEPT ![w] = "inflight"]
    /\ log' = [log EXCEPT ![wjob[w] + 1].start = CtxNow]
    /\ fetchCount' = fetchCount + 1
    /\ UNCHANGED <<articles, delay, ctxDone, out, epc, idx, jobClosed, wjob, wres, wread,
                   limiterTick, ticksFired, tickerOn>>
    /\ UNCHANGED <<pvars, nvars>>

\* client.Get returns and fetchAndParse (lines 135-174) computes its result
FetchReturn(w) ==
    /\ wpc[w] = "inflight"
    /\ \E resp \in Responses :
          LET res == fetchAndParse(articles[wjob[w] + 1], resp)
          IN /\ wres' = [wres EXCEPT ![w] = res]
             /\ log' = [log EXCEPT ![wjob[w] + 1].result =
                                        IF res.err THEN "fail" ELSE "ok"]
    /\ wread' = [wread EXCEPT ![w] = CtxNow]
    /\ wpc' = [wpc EXCEPT ![w] = "store"]
    /\ UNCHANGED <<articles, delay, ctxDone, out, epc, idx, jobClosed, wjob,
                   limiterTick, ticksFired, tickerOn, fetchCount>>
    /\ UNCHANGED <<pvars, nvars>>

\* faulty variant of StoreValue: a failed scrape stores the zero Article
StoreValueZeroOnErr(art, res) == IF res.err THEN ZeroArticle ELSE res.art

\* articleWorker lines 110-120: out[idx] = art on error, = enriched otherwise
StoreValue(art, res) == IF res.err THEN art ELSE res.art

\* faulty variant of WorkerStore: the result is written at the next free position
\* (completion order) instead of at the index received
WorkerStoreByCompletion(w) ==
    LET pos == Cardinality({i \in 1 .. Len(articles) : log[i].writes > 0}) + 1
    IN /\ wpc[w] = "store"
       /\ out' = [out EXCEPT ![pos] = StoreValue(articles[wjob[w] + 1], wres[w])]
       /\ log' = [log EXCEPT ![wjob[w] + 1].writes = @ + 1]
       /\ wpc' = [wpc EXCEPT ![w] = "recv"]
       /\ wjob' = [wjob EXCEPT ![w] = -1]
       /\ wres' = [wres EXCEPT ![w] = NoResult]
       /\ wread' = [wread EXCEPT ![w] = "-"]
       /\ UNCHANGED <<articles, delay, ctxDone, epc, idx, jobClosed,
                      limiterTick, ticksFired, tickerOn, fetchCount>>
       /\ UNCHANGED <<pvars, nvars>>

WorkerStore(w) ==
    /\ wpc[w] = "store"
    /\ out' = [out EXCEPT ![wjob[w] + 1] = StoreValue(articles[wjob[w] + 1], wres[w])]
    /\ log' = [log EXCEPT ![wjob[w] + 1].writes = @ + 1,
                          ![wjob[w] + 1].across = (wread[w] = "live" /\ ctxDone)]
    /\ wpc' = [wpc EXCEPT ![w] = "recv"]
    /\ wjob' = [wjob EXCEPT ![w] = -1]
    /\ wres' = [wres EXCEPT ![w] = NoResult]
    /\ wread' = [wread EXCEPT ![w] = "-"]
    /\ UNCHANGED <<articles, delay, ctxDone, epc, idx, jobClosed,
                   limiterTick, ticksFired, tickerOn, fetchCount>>
    /\ UNCHANGED <<pvars, nvars>>

\* faulty variant of AllWorkersDone: Enrich does not wait for its workers
AllWorkersDoneNoWait == TRUE

\* wg.Wait() (line 78) returns once every started worker has run wg.Done
AllWorkersDone == \A w \in Workers : wpc[w] \in {"idle", "done"}

\* Enrich, lines 78-80: wg.Wait() returns, the deferred ticker.Stop runs and
\* Enrich returns out
EnrichReturn ==
    /\ epc = "wait"
    /\ AllWorkersDone
    /\ epc' = "returned"
    /\ tickerOn' = FALSE
    /\ UNCHANGED <<articles, delay, ctxDone, out, idx, jobClosed, wpc, wjob, wres, wread,
                   limiterTick, ticksFired, fetchCount, log>>
    /\ UNCHANGED <<pvars, nvars>>

NextEnrich ==
    \/ Cancel
    \/ EnrichStart
    \/ DispatchCheck
    \/ \E w \in Workers : Handoff(w)
    \/ \E w \in Workers : WorkerDrained(w)
    \/ \E w \in Workers : WorkerCheck(w)
    \/ \E w \in Workers : WorkerSelectDone(w)
    \/ \E w \in Workers : WorkerSelectTick(w)
    \/ Tick
    \/ \E w \in Workers : FetchStart(w)
    \/ \E w \in Workers : FetchReturn(w)
    \/ \E w \in Workers : WorkerStore(w)
    \/ EnrichReturn

(***************************************************************************)
(* Part II: publisher configuration and construction.                      *)
(*   A Go string is a sequence of one-character strings, so that           *)
(*   strings.TrimSpace and strings.ToLower are computed, not assumed.      *)
(***************************************************************************)
\* longest publishers list in a configuration file
MaxPublishers == 2

UpperChars == <<"A", "B", "C", "D", "E", "F", "G", "H", "I", "J", "K", "L", "M",
                "N", "O", "P", "Q", "R", "S", "T", "U", "V", "W", "X", "Y", "Z">>
LowerChars == <<"a", "b", "c", "d", "e", "f", "g", "h", "i", "j", "k", "l", "m",
                "n", "o", "p", "q", "r", "s", "t", "u", "v", "w", "x", "y", "z">>
SpaceChars == {" ", "\t", "\n"}

LowerChar(c) ==
    IF \E i \in DOMAIN UpperChars : UpperChars[i] = c
    THEN LowerChars[CHOOSE i \in DOMAIN UpperChars : UpperChars[i] = c]
    ELSE c

UpperChar(c) ==
    IF \E i \in DOMAIN LowerChars : LowerChars[i] = c
    THEN UpperChars[CHOOSE i \in DOMAIN LowerChars : LowerChars[i] = c]
    ELSE c

\* strings.ToLower / strings.ToUpper
ToLower(s) == [i \in DOMAIN s |-> LowerChar(s[i])]
ToUpper(s) == [i \in DOMAIN s |-> UpperChar(s[i])]

\* strings.TrimSpace
RECURSIVE TrimLeft(_)
TrimLeft(s) ==
    IF s # <<>> /\ Head(s) \in SpaceChars THEN TrimLeft(Tail(s)) ELSE s

RECURSIVE TrimRight(_)
TrimRight(s) ==
    IF s # <<>> /\ s[Len(s)] \in SpaceChars
    THEN TrimRight(SubSeq(s, 1, Len(s) - 1)) ELSE s

TrimSpace(s) == TrimRight(TrimLeft(s))

\* constants of package publishers
TypeQueue == <<"q", "u", "e", "u", "e">>
TypeHTTP  == <<"h", "t", "t", "p">>
QueueProviderAWSSQS == <<"a", "w", "s", "-", "s", "q", "s">>
QueueProviderAWSSNS == <<"a", "w", "s", "-", "s", "n", "s">>
QueueProviderAzure  == <<"a", "z", "u", "r", "e">>
QueueProviderGCP    == <<"g", "c", "p">>
httpDefaultMethod   == <<"P", "O", "S", "T">>
httpDefaultTimeoutSeconds == 5

\* a nil pointer
Nil == [nil |-> TRUE]

(***************************************************************************)
(* sanitizePublisherConfig                                                 *)
(***************************************************************************)
sanitizeQueue(q) ==
    LET aws == IF q.AWS = Nil THEN Nil
               ELSE [QueueURL        |-> TrimSpace(q.AWS.QueueURL),
                     Region          |-> TrimSpace(q.AWS.Region),
                     AccessKeyID     |-> TrimSpace(q.AWS.AccessKeyID),
                     SecretAccessKey |-> TrimSpace(q.AWS.SecretAccessKey)]
        sns == IF q.SNS = Nil THEN Nil
               ELSE [TopicARN        |-> TrimSpace(q.SNS.TopicARN),
                     Region          |-> TrimSpace(q.SNS.Region),
                     AccessKeyID     |-> TrimSpace(q.SNS.AccessKeyID),
                     SecretAccessKey |-> TrimSpace(q.SNS.SecretAccessKey)]
        az  == IF q.Azure = Nil THEN Nil
               ELSE [ConnectionString |-> TrimSpace(q.Azure.ConnectionString),
                     QueueName        |-> TrimSpace(q.Azure.QueueName)]
        gcp == IF q.GCP = Nil THEN Nil
               ELSE [ProjectID       |-> TrimSpace(q.GCP.ProjectID),
                     Topic           |-> TrimSpace(q.GCP.Topic),
                     CredentialsFile |-> TrimSpace(q.GCP.CredentialsFile)]
    IN [Provider |-> ToLower(TrimSpace(q.Provider)),
        AWS |-> aws, SNS |-> sns, Azure |-> az, GCP |-> gcp]

sanitizeHTTP(h) ==
    LET m == ToUpper(TrimSpace(h.Method))
    IN [URL            |-> TrimSpace(h.URL),
        Method         |-> IF m = <<>> THEN httpDefaultMethod ELSE m,
        TimeoutSeconds |-> IF h.TimeoutSeconds <= 0
                           THEN httpDefaultTimeoutSeconds ELSE h.TimeoutSeconds]

sanitizePublisherConfig(cfg) ==
    [ID      |-> TrimSpace(cfg.ID),
     Type    |-> ToLower(TrimSpace(cfg.Type)),
     Enabled |-> IF cfg.Enabled = "nil" THEN "true" ELSE cfg.Enabled,
     Queue   |-> IF cfg.Queue = Nil THEN Nil ELSE sanitizeQueue(cfg.Queue),
     HTTP    |-> IF cfg.HTTP = Nil THEN Nil ELSE sanitizeHTTP(cfg.HTTP)]

(***************************************************************************)
(* validatePublisherConfig and its helpers: "" is the nil error            *)
(***************************************************************************)
validateSQSConfig(c) ==
    IF c = Nil THEN "sqs config required"
    ELSE IF c.QueueURL = <<>> THEN "sqs.uri is required"
    ELSE IF c.Region = <<>> THEN "sqs.region is required"
    ELSE IF c.AccessKeyID = <<>> THEN "sqs.access_key_id is required"
    ELSE IF c.SecretAccessKey = <<>> THEN "sqs.secret_access_key is required"
    ELSE ""

validateSNSConfig(c) ==
    IF c = Nil THEN "sns config required"
    ELSE IF c.TopicARN = <<>> THEN "sns.topic_arn is required"
    ELSE IF c.Region = <<>> THEN "sns.region is required"
    ELSE IF c.AccessKeyID = <<>> THEN "sns.access_key_id is required"
    ELSE IF c.SecretAccessKey = <<>> THEN "sns.secret_access_key is required"
    ELSE ""

validateGCPConfig(c) ==
    IF c = Nil THEN "gcp config required"
    ELSE IF c.ProjectID = <<>> THEN "gcp.project_id is required"
    ELSE IF c.Topic = <<>> THEN "gcp.topic is required"
    ELSE ""

validatePublisherConfig(cfg) ==
    IF cfg.ID = <<>> THEN "id is required"
    ELSE IF cfg.Type = <<>> THEN "type is required"
    ELSE IF cfg.Type = TypeQueue THEN
        IF cfg.Queue = Nil THEN "queue config required"
        ELSE IF cfg.Queue.Provider = QueueProviderAWSSQS THEN validateSQSConfig(cfg.Queue.AWS)
        ELSE IF cfg.Queue.Provider = QueueProviderAWSSNS THEN validateSNSConfig(cfg.Queue.SNS)
        ELSE IF cfg.Queue.Provider = QueueProviderGCP THEN validateGCPConfig(cfg.Queue.GCP)
        ELSE IF cfg.Queue.Provider = QueueProviderAzure THEN "queue provider not implemented"
        ELSE "queue provider not supported"
    ELSE IF cfg.Type = TypeHTTP THEN
        IF cfg.HTTP = Nil THEN "http config required"
        ELSE IF cfg.HTTP.URL = <<>> THEN "http.url is required"
        ELSE ""
    ELSE "type not supported"

\* faulty variant of EnabledValue: the flag is ignored
EnabledValueAlways(cfg) == TRUE

\* PublisherConfig.EnabledValue
EnabledValue(cfg) == IF cfg.Enabled = "nil" THEN TRUE ELSE cfg.Enabled = "true"

\* ConfigRegistry.All / ConfigRegistry.Enabled over the loaded entries
All(r) == r

Enabled(r) == SelectSeq(All(r), EnabledValue)


(***************************************************************************)
(* Entries a publishers file may contain.                                  *)
(***************************************************************************)
X == <<"x">>

ValidSQS == [QueueURL |-> <<" ", "x">>, Region |-> X, AccessKeyID |-> X, SecretAccessKey |-> X]
ValidSNS == [TopicARN |-> X, Region |-> X, AccessKeyID |-> X, SecretAccessKey |-> X]
ValidGCP == [ProjectID |-> X, Topic |-> X, CredentialsFile |-> <<>>]
ValidHTTP == [URL |-> X, Method |-> <<>>, TimeoutSeconds |-> 0]

QueueOf(provider, aws, sns, gcp) ==
    [Provider |-> provider, AWS |-> aws, SNS |-> sns, Azure |-> Nil, GCP |-> gcp]

EntryBodies ==
    { \* well-formed sinks
      [Type |-> <<" ", "H", "T", "T", "P">>, Enabled |-> "nil", Queue |-> Nil, HTTP |-> ValidHTTP],
      [Type |-> TypeQueue, Enabled |-> "true",
       Queue |-> QueueOf(<<"A", "W", "S", "-", "s", "q", "s">>, ValidSQS, Nil, Nil), HTTP |-> Nil],
      [Type |-> TypeQueue, Enabled |-> "nil",
       Queue |-> QueueOf(QueueProviderAWSSNS, Nil, ValidSNS, Nil), HTTP |-> Nil],
      [Type |-> TypeQueue, Enabled |-> "nil",
       Queue |-> QueueOf(QueueProviderGCP, Nil, Nil, ValidGCP), HTTP |-> Nil],
      \* well-formed but disabled
      [Type |-> TypeHTTP, Enabled |-> "false", Queue |-> Nil, HTTP |-> ValidHTTP],
      \* unrecognized type, enabled and disabled
      [Type |-> <<"k", "a", "f", "k", "a">>, Enabled |-> "nil", Queue |-> Nil, HTTP |-> Nil],
      [Type |-> <<"k", "a", "f", "k", "a">>, Enabled |-> "false", Queue |-> Nil, HTTP |-> Nil],
      \* disabled with incomplete contents
      [Type |-> TypeHTTP, Enabled |-> "false", Queue |-> Nil,
       HTTP |-> [URL |-> <<" ">>, Method |-> <<>>, TimeoutSeconds |-> 0]],
      \* queue sinks that cannot be constructed
      [Type |-> TypeQueue, Enabled |-> "nil",
       Queue |-> QueueOf(QueueProviderAzure, Nil, Nil, Nil), HTTP |-> Nil],
      [Type |-> TypeQueue, Enabled |-> "nil",
       Queue |-> QueueOf(<<"s", "q", "s">>, ValidSQS, Nil, Nil), HTTP |-> Nil],
      [Type |-> TypeQueue, Enabled |-> "nil",
       Queue |-> QueueOf(QueueProviderAWSSQS, Nil, Nil, Nil), HTTP |-> Nil],
      [Type |-> TypeQueue, Enabled |-> "nil", Queue |-> Nil, HTTP |-> Nil],
      \* no type
      [Type |-> <<" ">>, Enabled |-> "nil", Queue |-> Nil, HTTP |-> ValidHTTP] }

EntryIDs == { <<"a">>, <<"b">>, <<" ", "a">>, <<>> }

Entries ==
    { [ID |-> id, Type |-> b.Type, Enabled |-> b.Enabled, Queue |-> b.Queue, HTTP |-> b.HTTP]
        : id \in EntryIDs, b \in EntryBodies }

SeqsUpTo(S, n) == UNION { [1 .. k -> S] : k \in 0 .. n }

(***************************************************************************)
(* LoadRegistry after the file has been read and decoded.                  *)
(*   Returns (registry, error); "" is the nil error.                       *)
(***************************************************************************)
LoadRegistry(file) ==
    LET san == [i \in DOMAIN file |-> sanitizePublisherConfig(file[i])]
        Rejected(i) ==
            \/ validatePublisherConfig(san[i]) # ""
            \/ \E j \in 1 .. i - 1 : san[j].ID = san[i].ID
        first == CHOOSE i \in DOMAIN file :
                     Rejected(i) /\ \A j \in 1 .. i - 1 : ~Rejected(j)
    IN IF Len(file) = 0
       THEN [reg |-> <<>>, err |-> "publishers file contains no publishers entries", at |-> 0]
       ELSE IF \E i \in DOMAIN file : Rejected(i)
       THEN [reg |-> <<>>,
             err |-> IF validatePublisherConfig(san[first]) # ""
                     THEN validatePublisherConfig(san[first])
                     ELSE "duplicate publisher id",
             at  |-> first]
       ELSE [reg |-> san, err |-> "", at |-> 0]

(***************************************************************************)
(* Construction: newAWSSQSSender, newAWSSNSSender, newGCPPubSubSender,     *)
(* newQueuePublisher, newHTTPPublisher, registry.PublisherFor, BuildAll.   *)
(*   sdkOK is the outcome of the cloud SDK's client construction           *)
(*   (awscfg.LoadDefaultConfig, pubsub.NewClient).                         *)
(***************************************************************************)
NoSender == "none"

newAWSSQSSender(c, sdkOK) ==
    IF c = Nil THEN [sender |-> NoSender, err |-> "aws queue configuration is missing"]
    ELSE IF ~sdkOK THEN [sender |-> NoSender, err |-> "load aws config"]
    ELSE [sender |-> "awsSQSSender", err |-> ""]

newAWSSNSSender(c, sdkOK) ==
    IF c = Nil THEN [sender |-> NoSender, err |-> "aws sns configuration is missing"]
    ELSE IF ~sdkOK THEN [sender |-> NoSender, err |-> "load aws config"]
    ELSE [sender |-> "awsSNSSender", err |-> ""]

newGCPPubSubSender(c, sdkOK) ==
    IF c = Nil THEN [sender |-> NoSender, err |-> "gcp queue configuration is missing"]
    ELSE IF ~sdkOK THEN [sender |-> NoSender, err |-> "create pubsub client"]
    ELSE [sender |-> "gcpPubSubSender", err |-> ""]

NoPublisher == [id |-> <<>>, typ |-> <<>>, provider |-> <<>>, sender |-> NoSender]

\* faulty variant of newQueuePublisher: the azure case sets no error, so a
\* publisher without a sender is returned
newQueuePublisherAzureBuilt(cfg, sdkOK) ==
    IF cfg.Queue = Nil
    THEN [pub |-> NoPublisher, err |-> "missing queue configuration"]
    ELSE LET r == IF cfg.Queue.Provider = QueueProviderAWSSQS
                  THEN newAWSSQSSender(cfg.Queue.AWS, sdkOK)
                  ELSE IF cfg.Queue.Provider = QueueProviderAWSSNS
                  THEN newAWSSNSSender(cfg.Queue.SNS, sdkOK)
                  ELSE IF cfg.Queue.Provider = QueueProviderGCP
                  THEN newGCPPubSubSender(cfg.Queue.GCP, sdkOK)
                  ELSE IF cfg.Queue.Provider = QueueProviderAzure
                  THEN [sender |-> NoSender, err |-> ""]
                  ELSE [sender |-> NoSender, err |-> "queue provider is not supported"]
         IN IF r.err # ""
            THEN [pub |-> NoPublisher, err |-> r.err]
            ELSE [pub |-> [id |-> cfg.ID, typ |-> cfg.Type,
                           provider |-> cfg.Queue.Provider, sender |-> r.sender],
                  err |-> ""]

newQueuePublisher(cfg, sdkOK) ==
    IF cfg.Queue = Nil
    THEN [pub |-> NoPublisher, err |-> "missing queue configuration"]
    ELSE LET r == IF cfg.Queue.Provider = QueueProviderAWSSQS
                  THEN newAWSSQSSender(cfg.Queue.AWS, sdkOK)
                  ELSE IF cfg.Queue.Provider = QueueProviderAWSSNS
                  THEN newAWSSNSSender(cfg.Queue.SNS, sdkOK)
                  ELSE IF cfg.Queue.Provider = QueueProviderGCP
                  THEN newGCPPubSubSender(cfg.Queue.GCP, sdkOK)
                  ELSE IF cfg.Queue.Provider = QueueProviderAzure
                  THEN [sender |-> NoSender, err |-> "queue provider not implemented"]
                  ELSE [sender |-> NoSender, err |-> "queue provider is not supported"]
         IN IF r.err # ""
            THEN [pub |-> NoPublisher, err |-> r.err]
            ELSE [pub |-> [id |-> cfg.ID, typ |-> cfg.Type,
                           provider |-> cfg.Queue.Provider, sender |-> r.sender],
                  err |-> ""]

\* the HTTP sink's constructor: needs the http section
newHTTPPublisher(cfg) ==
    IF cfg.HTTP = Nil
    THEN [pub |-> NoPublisher, err |-> "missing http configuration"]
    ELSE [pub |-> [id |-> cfg.ID, typ |-> cfg.Type, provider |-> <<>>, sender |-> "http"],
          err |-> ""]

\* keys of DefaultRegistry(): Register lower-cases and trims the type
RegisteredTypes == { TrimSpace(ToLower(TypeHTTP)), TrimSpace(ToLower(TypeQueue)) }

PublisherFor(cfg, sdkOK) ==
    IF cfg.Type = <<>>
    THEN [pub |-> NoPublisher, err |-> "no type configured"]
    ELSE IF ToLower(cfg.Type) \notin RegisteredTypes
    THEN [pub |-> NoPublisher, err |-> "no publisher registered for type"]
    ELSE IF ToLower(cfg.Type) = TypeQueue THEN newQueuePublisher(cfg, sdkOK)
    ELSE newHTTPPublisher(cfg)

\* BuildAll: (pubs, error); sdk[i] is the SDK outcome met while building cfgs[i]
RECURSIVE BuildLoop(_, _, _, _)
BuildLoop(cfgs, sdk, i, acc) ==
    IF i > Len(cfgs) THEN [pubs |-> acc, err |-> ""]
    ELSE LET r == PublisherFor(cfgs[i], sdk[i])
         IN IF r.err # "" THEN [pubs |-> <<>>, err |-> r.err]
            ELSE BuildLoop(cfgs, sdk, i + 1, Append(acc, r.pub))

BuildAll(cfgs, sdk) ==
    IF Len(cfgs) = 0 THEN [pubs |-> <<>>, err |-> ""]
    ELSE BuildLoop(cfgs, sdk, 1, <<>>)

(***************************************************************************)
(* Part II: startup wiring.                                                *)
(***************************************************************************)

InitPublishers ==
    /\ ppc = "start"
    /\ pfile \in SeqsUpTo(Entries, MaxPublishers)
    /\ reg = <<>>
    /\ loadErr = ""
    /\ loadAt = 0
    /\ bcfgs = <<>>
    /\ bsdk = <<>>
    /\ pubs = <<>>
    /\ buildErr = ""

\* LoadRegistry(path) returns a registry
LoadOK ==
    /\ ppc = "start"
    /\ LoadRegistry(pfile).err = ""
    /\ reg' = LoadRegistry(pfile).reg
    /\ ppc' = "loaded"
    /\ UNCHANGED <<pfile, loadErr, loadAt, bcfgs, bsdk, pubs, buildErr>>
    /\ UNCHANGED <<evars, nvars>>

\* LoadRegistry(path) returns an error
LoadFail ==
    /\ ppc = "start"
    /\ LoadRegistry(pfile).err # ""
    /\ loadErr' = LoadRegistry(pfile).err
    /\ loadAt' = LoadRegistry(pfile).at
    /\ ppc' = "loadFailed"
    /\ UNCHANGED <<pfile, reg, bcfgs, bsdk, pubs, buildErr>>
    /\ UNCHANGED <<evars, nvars>>

\* BuildAll over the enabled entries of the loaded registry
BuildEnabled ==
    /\ ppc = "loaded"
    /\ \E sdk \in [1 .. Len(Enabled(reg)) -> BOOLEAN] :
          /\ bcfgs' = Enabled(reg)
          /\ bsdk' = sdk
          /\ pubs' = BuildAll(Enabled(reg), sdk).pubs
          /\ buildErr' = BuildAll(Enabled(reg), sdk).err
    /\ ppc' = "built"
    /\ UNCHANGED <<pfile, reg, loadErr, loadAt>>
    /\ UNCHANGED <<evars, nvars>>

\* BuildAll called on configurations that did not pass through LoadRegistry
BuildDirect ==
    /\ ppc = "start"
    /\ \E sdk \in [1 .. Len(pfile) -> BOOLEAN] :
          /\ bcfgs' = pfile
          /\ bsdk' = sdk
          /\ pubs' = BuildAll(pfile, sdk).pubs
          /\ buildErr' = BuildAll(pfile, sdk).err
    /\ ppc' = "built"
    /\ UNCHANGED <<pfile, reg, loadErr, loadAt>>
    /\ UNCHANGED <<evars, nvars>>

\* configurations handed to BuildAll as they are: one sink, or two sinks
\* with the same id
InitSinks ==
    /\ ppc = "start"
    /\ pfile \in { <<e>> : e \in Entries }
                  \cup { <<e, f>> : e, f \in { x \in Entries : x.ID = <<"a">> } }
    /\ reg = <<>>
    /\ loadErr = ""
    /\ loadAt = 0
    /\ bcfgs = <<>>
    /\ bsdk = <<>>
    /\ pubs = <<>>
    /\ buildErr = ""

\* publishers files of sinks that differ in id, type and enabled flag: the
\* http and unrecognized-type entries and the queue entry enabled explicitly
LoadEntries == { e \in Entries : e.Type # TypeQueue \/ e.Enabled = "true" }

InitLoad ==
    /\ ppc = "start"
    /\ pfile \in SeqsUpTo(LoadEntries, MaxPublishers)
    /\ reg = <<>>
    /\ loadErr = ""
    /\ loadAt = 0
    /\ bcfgs = <<>>
    /\ bsdk = <<>>
    /\ pubs = <<>>
    /\ buildErr = ""

NextPublishers ==
    \/ LoadOK
    \/ LoadFail
    \/ BuildEnabled
    \/ BuildDirect

(***************************************************************************)
(* Part III: the source registry and one provider fetch.                   *)
(*   Provider ids and types are sequences of characters.  A URL or another *)
(*   text of a feed is a sequence of tokens in which every whitespace      *)
(*   character is a token of its own, so strings.TrimSpace is computed.    *)
(***************************************************************************)
\* nested sitemap URLs a feed may refer to, besides the provider's source URL
MaxSitemaps == 2

SitemapNames == <<"sm1", "sm2", "sm3", "sm4">>

RootURL == <<"root">>

SitemapURLs == {RootURL} \cup { <<SitemapNames[i]>> : i \in 1 .. MaxSitemaps }

\* strings.EqualFold
EqualFold(a, b) == ToLower(a) = ToLower(b)

\* strings.Split(s, sep) for a one-character separator
RECURSIVE Split(_, _)
Split(s, sep) ==
    IF \E i \in DOMAIN s : s[i] = sep
    THEN LET i == CHOOSE k \in DOMAIN s : s[k] = sep /\ \A j \in 1 .. k - 1 : s[j] # sep
         IN <<SubSeq(s, 1, i - 1)>> \o Split(SubSeq(s, i + 1, Len(s)), sep)
    ELSE <<s>>

\* provider ids of the fetchers, and the type of a Google News sitemap provider
ndtvProviderID == <<"n", "d", "t", "v">>
theHinduProviderID == <<"t", "h", "e", "h", "i", "n", "d", "u">>
financialExpressProviderID ==
    <<"f", "i", "n", "a", "n", "c", "i", "a", "l", "e", "x", "p", "r", "e", "s", "s">>
anandabazarPatrikaProviderID ==
    <<"a", "n", "a", "n", "d", "a", "b", "a", "z", "a", "r", "p", "a", "t", "r", "i", "k", "a">>
eisamayProviderID == <<"e", "i", "s", "a", "m", "a", "y">>
aajtakProviderID == <<"a", "a", "j", "t", "a", "k">>
jagranProviderID == <<"j", "a", "g", "r", "a", "n">>
dinamalarProviderID == <<"d", "i", "n", "a", "m", "a", "l", "a", "r">>
ProviderTypeGoogleNews ==
    <<"g", "o", "o", "g", "l", "e", "_", "n", "e", "w", "s", "_",
      "s", "i", "t", "e", "m", "a", "p">>

\* a Fetcher: the per-site fetchers differ in their id only
SiteFetcher(id) == [kind |-> "site", id |-> id]

googleNewsFetcher == [kind |-> "googleNews", id |-> ProviderTypeGoogleNews]

NoFetcher == [kind |-> "nil", id |-> <<>>]

\* NewFetcherRegistry: the map from lower-cased, trimmed fetcher id to
\* fetcher; nil fetchers are skipped, a later fetcher replaces an earlier one
\* with the same key
NewFetcherRegistry(fetchers) ==
    LET used == { i \in DOMAIN fetchers : fetchers[i] # NoFetcher }
        key(i) == ToLower(TrimSpace(fetchers[i].id))
    IN [k \in { key(i) : i \in used } |->
           fetchers[CHOOSE i \in used :
                       key(i) = k /\ \A j \in used : j > i => key(j) # k]]

\* the fetchers DefaultFetcherRegistry registers (those whose source is at
\* hand; the Times of India and Daily Thanthi fetchers are built alike)
DefaultFetchers ==
    <<SiteFetcher(ndtvProviderID), SiteFetcher(theHinduProviderID),
      SiteFetcher(financialExpressProviderID), SiteFetcher(anandabazarPatrikaProviderID),
      SiteFetcher(eisamayProviderID), SiteFetcher(aajtakProviderID),
      SiteFetcher(jagranProviderID), SiteFetcher(dinamalarProviderID)>>

\* fetcherRegistry.FetcherFor: (Fetcher, error); "" is the nil error
FetcherFor(r, cfg) ==
    IF cfg.ID = <<>>
    THEN [fetcher |-> NoFetcher, err |-> "provider id is empty"]
    ELSE IF ToLower(cfg.ID) \in DOMAIN r
    THEN [fetcher |-> r[ToLower(cfg.ID)], err |-> ""]
    ELSE [fetcher |-> NoFetcher, err |-> "no fetcher registered for provider"]

(***************************************************************************)
(* Sitemap documents and what the helpers make of them.                    *)
(***************************************************************************)
\* time.Time{}
ZeroTime == <<>>

RFC3339Texts == { <<"2024-01-02T03:04:05Z">> }

\* parsePublicationDate
parsePublicationDate(raw) ==
    IF TrimSpace(raw) = <<>> THEN ZeroTime
    ELSE IF TrimSpace(raw) \in RFC3339Texts THEN TrimSpace(raw)
    ELSE ZeroTime

\* parseKeywords: nil is the empty sequence
parseKeywords(raw) ==
    IF TrimSpace(raw) = <<>> THEN <<>>
    ELSE LET parts   == Split(TrimSpace(raw), ",")
             trimmed == [i \in DOMAIN parts |-> TrimSpace(parts[i])]
         IN SelectSeq(trimmed, LAMBDA kw : kw # <<>>)

\* firstImageURL
firstImageURL(images) ==
    LET locs == SelectSeq([i \in DOMAIN images |-> TrimSpace(images[i].Loc)],
                          LAMBDA loc : loc # <<>>)
    IN IF locs = <<>> THEN <<>> ELSE Head(locs)

\* faulty variant of buildArticle: the id is the hash of the entry's loc as
\* it stands in the feed
buildArticleHashRaw(providerID, entry) ==
    [ProviderID  |-> providerID,
     ID          |-> hashURL(entry.Loc),
     Title       |-> TrimSpace(entry.News.Title),
     URL         |-> TrimSpace(entry.Loc),
     ImageURL    |-> firstImageURL(entry.Images),
     Keywords    |-> parseKeywords(entry.News.Keywords),
     PublishedAt |-> parsePublicationDate(entry.News.PublicationDate)]

\* the article buildArticlesFromSitemap builds of one entry with a URL
buildArticle(providerID, entry) ==
    [ProviderID  |-> providerID,
     ID          |-> hashURL(TrimSpace(entry.Loc)),
     Title       |-> TrimSpace(entry.News.Title),
     URL         |-> TrimSpace(entry.Loc),
     ImageURL    |-> firstImageURL(entry.Images),
     Keywords    |-> parseKeywords(entry.News.Keywords),
     PublishedAt |-> parsePublicationDate(entry.News.PublicationDate)]

\* faulty variant of buildArticlesFromSitemap: no entry is skipped
buildArticlesFromSitemapKeepAll(providerID, urls) ==
    [i \in DOMAIN urls |-> buildArticle(providerID, urls[i])]

\* buildArticlesFromSitemap: entries whose trimmed loc is empty are skipped
buildArticlesFromSitemap(providerID, urls) ==
    LET kept == SelectSeq(urls, LAMBDA entry : TrimSpace(entry.Loc) # <<>>)
    IN [i \in DOMAIN kept |-> buildArticle(providerID, kept[i])]

\* feed entries (googleNewsURL)
EntryU1 ==
    [Loc |-> <<"u1">>,
     News |-> [PublicationDate |-> <<"2024-01-02T03:04:05Z">>,
               Keywords |-> <<"k1", ",", " ", "k2", ",">>, Title |-> <<"t1", " ">>],
     Images |-> << [Loc |-> <<" ">>], [Loc |-> <<"i1">>] >>]

\* the same URL written with surrounding blanks, everything else different
EntryU1Again ==
    [Loc |-> <<" ", "u1", "\n">>,
     News |-> [PublicationDate |-> <<"soon">>, Keywords |-> <<>>, Title |-> <<"t9">>],
     Images |-> <<>>]

EntryU2 ==
    [Loc |-> <<"u2">>,
     News |-> [PublicationDate |-> <<>>, Keywords |-> <<" ", ",">>, Title |-> <<>>],
     Images |-> << [Loc |-> <<"i2">>] >>]

EntryNoLoc ==
    [Loc |-> <<" ">>,
     News |-> [PublicationDate |-> <<>>, Keywords |-> <<"k3">>, Title |-> <<"t3">>],
     Images |-> <<>>]

SitemapEntries == {EntryU1, EntryU1Again, EntryU2, EntryNoLoc}

\* a decoded document: its <url> entries and the locs of its <sitemap> entries
XMLBody(urls, sitemaps) == [xmlOK |-> TRUE, urls |-> urls, sitemaps |-> sitemaps]

NotXML == [xmlOK |-> FALSE, urls |-> <<>>, sitemaps |-> <<>>]

URLSets ==
    { <<>>, <<EntryU1, EntryU1Again>>, <<EntryNoLoc>>, <<EntryNoLoc, EntryU2>> }

\* the sitemap URL after u, in a fixed cyclic order
NextSitemap(u) ==
    IF u = RootURL THEN <<SitemapNames[1]>>
    ELSE LET i == CHOOSE k \in 1 .. MaxSitemaps : u = <<SitemapNames[k]>>
         IN IF i = MaxSitemaps THEN RootURL ELSE <<SitemapNames[i + 1]>>

\* nested references of an index: one sitemap (itself, or one leading back to
\* where the walk came from, among them), two sitemaps, or blank and padded locs
IndexLists ==
    { <<u>> : u \in SitemapURLs } \cup { <<u, NextSitemap(u)>> : u \in SitemapURLs }
        \cup { << <<" ">>, <<" ">> \o RootURL >> }

\* what client.Get may return for a sitemap URL
SitemapResponses ==
    { [err |-> TRUE,  status |-> 0,   body |-> NotXML],
      [err |-> FALSE, status |-> 500, body |-> XMLBody(<<EntryU1>>, <<>>)],
      [err |-> FALSE, status |-> 201, body |-> XMLBody(<<EntryU2>>, <<>>)],
      [err |-> FALSE, status |-> 200, body |-> NotXML],
      [err |-> FALSE, status |-> 200, body |-> XMLBody(<<EntryU2>>, <<RootURL>>)] }
    \cup { [err |-> FALSE, status |-> 200, body |-> XMLBody(u, <<>>)] : u \in URLSets }
    \cup { [err |-> FALSE, status |-> 200, body |-> XMLBody(<<>>, ix)] : ix \in IndexLists }

\* faulty variant of fetchSitemap: the status code is not looked at
fetchSitemapAnyStatus(resp) ==
    IF resp.err THEN [body |-> NotXML, err |-> "fetch sitemap"]
    ELSE [body |-> resp.body, err |-> ""]

\* fetchSitemap after client.Get has returned resp: (body, error)
fetchSitemap(resp) ==
    IF resp.err THEN [body |-> NotXML, err |-> "fetch sitemap"]
    ELSE IF resp.status # StatusOK THEN [body |-> NotXML, err |-> "sitemap returned status"]
    ELSE [body |-> resp.body, err |-> ""]

\* parseGoogleNewsSitemap: (urls, error)
parseGoogleNewsSitemap(body) ==
    IF ~body.xmlOK THEN [urls |-> <<>>, err |-> "xml"] ELSE [urls |-> body.urls, err |-> ""]

\* parseSitemapIndex: the trimmed, non-empty locs of the nested sitemaps
parseSitemapIndex(body) ==
    IF ~body.xmlOK THEN [urls |-> <<>>, err |-> "xml"]
    ELSE [urls |-> SelectSeq([i \in DOMAIN body.sitemaps |-> TrimSpace(body.sitemaps[i])],
                             LAMBDA loc : loc # <<>>),
          err  |-> ""]

\* Fetch of a per-site fetcher (aajtakFetcher.Fetch and its siblings) once
\* client.Get has returned resp: (articles, error) and whether the request
\* was made at all
siteFetch(f, cfg, resp) ==
    IF ~EqualFold(cfg.ID, f.id)
    THEN [items |-> <<>>, err |-> "incompatible provider", asked |-> FALSE]
    ELSE IF TrimSpace(cfg.SourceURL) = <<>>
    THEN [items |-> <<>>, err |-> "source_url is empty", asked |-> FALSE]
    ELSE LET raw == fetchSitemap(resp) IN
         IF raw.err # "" THEN [items |-> <<>>, err |-> raw.err, asked |-> TRUE]
         ELSE LET parsed == parseGoogleNewsSitemap(raw.body) IN
              IF parsed.err # ""
              THEN [items |-> <<>>, err |-> "decode google news sitemap", asked |-> TRUE]
              ELSE LET built == buildArticlesFromSitemap(<<>>, parsed.urls) IN
                   IF Len(built) = 0
                   THEN [items |-> <<>>, err |-> "sitemap returned no records",
                         asked |-> TRUE]
                   ELSE [items |-> built, err |-> "", asked |-> TRUE]

(***************************************************************************)
(* Part III: one provider fetch, step by step.                             *)
(***************************************************************************)
\* provider configurations tried
ProviderIDs ==
    { ndtvProviderID, ToUpper(ndtvProviderID), aajtakProviderID,
      <<"m", "y", "s", "i", "t", "e">>, <<>>,
      ProviderTypeGoogleNews, ToUpper(ProviderTypeGoogleNews) }

ProviderTypes == { ProviderTypeGoogleNews, ToUpper(ProviderTypeGoogleNews), <<"r", "s", "s">> }

SourceURLs == { <<>>, <<" ">>, RootURL, <<" ">> \o RootURL }

Providers ==
    { [ID |-> id, Type |-> ProviderTypeGoogleNews, SourceURL |-> RootURL] :
        id \in ProviderIDs }
    \cup { [ID |-> id, Type |-> t, SourceURL |-> u] :
              id \in {ndtvProviderID, ProviderTypeGoogleNews},
              t \in ProviderTypes, u \in SourceURLs }

\* what the document served for url holds: direct entries ("urls", "both"
\* when it names nested sitemaps as well), nested sitemaps only ("self" when
\* every one of them is url itself, else "index"), or nothing ("empty")
DocKind(url, body) ==
    LET refs == SelectSeq([i \in DOMAIN body.sitemaps |-> TrimSpace(body.sitemaps[i])],
                          LAMBDA loc : loc # <<>>)
    IN  IF Len(body.urls) > 0 THEN (IF Len(refs) > 0 THEN "both" ELSE "urls")
        ELSE IF Len(refs) = 0 THEN "empty"
        ELSE IF \A i \in DOMAIN refs : refs[i] = url THEN "self"
        ELSE "index"

\* history of a request: the URL asked for and what came back
Request(url, resp) ==
    [url |-> url, err |-> resp.err, status |-> resp.status, xmlOK |-> resp.body.xmlOK,
     doc |-> DocKind(url, resp.body)]

\* a call of fetchGoogleNewsURLs: "enter" until its body has run, "loop"
\* while it walks the nested indexes
NewCall(url) == [url |-> url, phase |-> "enter", indexURLs |-> <<>>, pos |-> 1, all |-> <<>>]

\* deepest recursion explored: one call per URL text that can be visited,
\* and one more that finds its URL visited
MaxCallDepth == Cardinality(SitemapURLs) + 2

InitFetch ==
    /\ fpc = "start"
    /\ freg \in { DefaultFetchers,
                  <<NoFetcher, SiteFetcher(ToUpper(ndtvProviderID)), googleNewsFetcher>> }
    /\ fcfg \in Providers
    /\ ffetcher = NoFetcher
    /\ fstack = <<>>
    /\ fvisited = {}
    /\ furls = <<>>
    /\ fitems = <<>>
    /\ ferr = ""
    /\ freq = <<>>

\* the registry is asked for the provider's fetcher; without one there is
\* nothing to call
FetcherLookup ==
    /\ fpc = "start"
    /\ LET r == FetcherFor(NewFetcherRegistry(freg), fcfg)
       IN /\ ffetcher' = r.fetcher
          /\ ferr' = r.err
          /\ fpc' = IF r.err = "" THEN "fetch" ELSE "done"
    /\ UNCHANGED <<freg, fcfg, fstack, fvisited, furls, fitems, freq>>
    /\ UNCHANGED <<evars, pvars, cvars, ovars>>

\* Fetch of a per-site fetcher
SiteFetch ==
    /\ fpc = "fetch"
    /\ ffetcher.kind = "site"
    /\ \E resp \in SitemapResponses :
          LET r == siteFetch(ffetcher, fcfg, resp)
          IN /\ fitems' = r.items
             /\ ferr' = r.err
             /\ freq' = IF r.asked THEN Append(freq, Request(fcfg.SourceURL, resp))
                        ELSE freq
    /\ fpc' = "done"
    /\ UNCHANGED <<freg, fcfg, ffetcher, fstack, fvisited, furls>>
    /\ UNCHANGED <<evars, pvars, cvars, ovars>>

\* googleNewsFetcher.Fetch, lines 31-40: the checks, then the outermost call
\* of fetchGoogleNewsURLs with a nil visited map
GoogleFetchStart ==
    /\ fpc = "fetch"
    /\ ffetcher.kind = "googleNews"
    /\ IF ~EqualFold(fcfg.Type, ProviderTypeGoogleNews)
       THEN /\ ferr' = "incompatible provider type"
            /\ fpc' = "done"
            /\ UNCHANGED fstack
       ELSE IF TrimSpace(fcfg.SourceURL) = <<>>
       THEN /\ ferr' = "source_url is empty"
            /\ fpc' = "done"
            /\ UNCHANGED fstack
       ELSE /\ fstack' = <<NewCall(fcfg.SourceURL)>>
            /\ fpc' = "resolve"
            /\ UNCHANGED ferr
    /\ UNCHANGED <<freg, fcfg, ffetcher, fvisited, furls, fitems, freq>>
    /\ UNCHANGED <<evars, pvars, cvars, ovars>>

Top == fstack[Len(fstack)]

\* the innermost call returns (value, nil): to Fetch when it is the
\* outermost call, else into its caller's loop (lines 90-94)
ReturnValue(value) ==
    IF Len(fstack) = 1
    THEN /\ fstack' = <<>>
         /\ furls' = value
         /\ fpc' = "build"
    ELSE /\ fstack' = [i \in 1 .. Len(fstack) - 1 |->
                          IF i = Len(fstack) - 1
                          THEN [fstack[i] EXCEPT !.all = @ \o value, !.pos = @ + 1]
                          ELSE fstack[i]]
         /\ UNCHANGED <<furls, fpc>>

\* faulty variant of ReturnError: the failed sitemap is skipped and the
\* caller goes on with what it has collected
ReturnErrorSkipped(err) ==
    /\ ReturnValue(<<>>)
    /\ UNCHANGED <<ferr, fitems>>

\* the innermost call returns (nil, err): every caller returns (nil, err)
\* in turn (lines 91-93) and so does Fetch (lines 41-43)
ReturnError(err) ==
    /\ fstack' = <<>>
    /\ ferr' = err
    /\ fpc' = "done"
    /\ UNCHANGED <<furls, fitems>>

\* faulty variant of Seen: the visited map is never consulted
SeenNever(url) == FALSE

\* fetchGoogleNewsURLs, line 57
Seen(url) == url \in fvisited

\* fetchGoogleNewsURLs, lines 54-82: the visited check, the request and the
\* two decodings
GoogleCall ==
    /\ fpc = "resolve"
    /\ Top.phase = "enter"
    /\ IF Seen(Top.url)
       THEN /\ ReturnValue(<<>>)
            /\ UNCHANGED <<fvisited, freq, ferr, fitems>>
       ELSE /\ fvisited' = fvisited \cup {Top.url}
            /\ \E resp \in SitemapResponses :
                  LET raw    == fetchSitemap(resp)
                      parsed == parseGoogleNewsSitemap(raw.body)
                      index  == parseSitemapIndex(raw.body)
                  IN /\ freq' = Append(freq, Request(Top.url, resp))
                     /\ IF raw.err # "" THEN ReturnError(raw.err)
                        ELSE IF parsed.err # ""
                        THEN ReturnError("decode google news sitemap")
                        ELSE IF Len(parsed.urls) > 0
                        THEN ReturnValue(parsed.urls) /\ UNCHANGED <<ferr, fitems>>
                        ELSE IF index.err # "" THEN ReturnError("decode sitemap index")
                        ELSE IF Len(index.urls) = 0
                        THEN ReturnValue(<<>>) /\ UNCHANGED <<ferr, fitems>>
                        ELSE /\ fstack' = [fstack EXCEPT ![Len(fstack)] =
                                              [@ EXCEPT !.phase = "loop",
                                                        !.indexURLs = index.urls]]
                             /\ UNCHANGED <<furls, fpc, ferr, fitems>>
    /\ UNCHANGED <<freg, fcfg, ffetcher>>
    /\ UNCHANGED <<evars, pvars, cvars, ovars>>

\* fetchGoogleNewsURLs, lines 83-96: the loop over the nested indexes
GoogleLoop ==
    /\ fpc = "resolve"
    /\ Top.phase = "loop"
    /\ IF Top.pos > Len(Top.indexURLs)
       THEN ReturnValue(Top.all)
       ELSE LET indexURL == TrimSpace(Top.indexURLs[Top.pos])
            IN IF indexURL = <<>>
               THEN /\ fstack' = [fstack EXCEPT ![Len(fstack)].pos = @ + 1]
                    /\ UNCHANGED <<furls, fpc>>
               ELSE /\ Len(fstack) < MaxCallDepth
                    /\ fstack' = Append(fstack, NewCall(indexURL))
                    /\ UNCHANGED <<furls, fpc>>
    /\ UNCHANGED <<freg, fcfg, ffetcher, fvisited, fitems, ferr, freq>>
    /\ UNCHANGED <<evars, pvars, cvars, ovars>>

\* faulty variant of GoogleBuild: an empty result is returned without error
GoogleBuildEmptyOK ==
    /\ fpc = "build"
    /\ fitems' = buildArticlesFromSitemap(fcfg.ID, furls)
    /\ fpc' = "done"
    /\ UNCHANGED <<freg, fcfg, ffetcher, fstack, fvisited, furls, ferr, freq>>
    /\ UNCHANGED <<evars, pvars, cvars, ovars>>

\* googleNewsFetcher.Fetch, lines 45-49
GoogleBuild ==
    /\ fpc = "build"
    /\ LET built == buildArticlesFromSitemap(fcfg.ID, furls)
       IN IF Len(built) = 0
          THEN /\ ferr' = "sitemap returned no records"
               /\ fitems' = <<>>
          ELSE /\ fitems' = built
               /\ UNCHANGED ferr
    /\ fpc' = "done"
    /\ UNCHANGED <<freg, fcfg, ffetcher, fstack, fvisited, furls, freq>>
    /\ UNCHANGED <<evars, pvars, cvars, ovars>>

NextFetch ==
    \/ FetcherLookup
    \/ SiteFetch
    \/ GoogleFetchStart
    \/ GoogleCall
    \/ GoogleLoop
    \/ GoogleBuild

(***************************************************************************)
(* Part IV: the crawl cycles of one provider: FETCH, ENRICH, FILTER,       *)
(* PUBLISH, MARK_SEEN, DONE, and FAILED after a failed fetch.  The sinks   *)
(* are queue publishers; every fan-out step is one queuePublisher.Publish. *)
(***************************************************************************)
\* source URLs the provider's feed can hold
MaxItems == 2

\* queue sinks in the active set
MaxSinks == 2

\* successive cycles of the provider
MaxCycles == 2

CycleItems == { [ID |-> hashURL(ArticleURL(i)), URL |-> ArticleURL(i)] : i \in 1 .. MaxItems }

IDs(items) == { items[i].ID : i \in DOMAIN items }

\* what a successful fetch returns: at least one item, no URL twice, the
\* URLs in the order of the feed
Feeds ==
    { f \in SeqsUpTo(CycleItems, MaxItems) :
        /\ Len(f) > 0
        /\ \A i, j \in DOMAIN f : i < j => f[i].URL.path[2] < f[j].URL.path[2] }

\* configurations of the queue sinks, by position in the active set
SinkConfigs ==
    << [ID |-> <<"a">>, Type |-> TypeQueue,
        Queue |-> QueueOf(QueueProviderAWSSQS, ValidSQS, Nil, Nil), HTTP |-> Nil],
       [ID |-> <<"b">>, Type |-> TypeQueue,
        Queue |-> QueueOf(QueueProviderAWSSNS, Nil, ValidSNS, Nil), HTTP |-> Nil],
       [ID |-> <<"c">>, Type |-> TypeQueue,
        Queue |-> QueueOf(QueueProviderGCP, Nil, Nil, ValidGCP), HTTP |-> Nil] >>

\* the active sets: the first sinks of SinkConfigs as built by
\* newQueuePublisher, each with the outcome of its Send calls: the message
\* is accepted, json.Marshal fails, the provider call fails
ActiveSets ==
    UNION { { [s \in 1 .. n |-> [pub |-> newQueuePublisher(SinkConfigs[s], TRUE).pub,
                                 outcome |-> o[s]]] : o \in [1 .. n -> {"ok", "marshalErr", "sendErr"}] }
            : n \in 1 .. MaxSinks }

\* Send of awsSQSSender, awsSNSSender, gcpPubSubSender: marshal the event,
\* then one request to the provider; requests are the provider calls made
Send(sender, evt, outcome) ==
    IF outcome = "marshalErr"
    THEN [requests |-> <<>>, err |-> "marshal event"]
    ELSE IF outcome = "sendErr"
    THEN [requests |-> << [to |-> sender, body |-> evt, provider_id |-> evt.ProviderID] >>,
          err |-> "send message"]
    ELSE [requests |-> << [to |-> sender, body |-> evt, provider_id |-> evt.ProviderID] >>,
          err |-> ""]

\* faulty variant of Publish: a failed Send is tried once more
PublishRetry(p, evt, outcome) ==
    LET r == Send(p.sender, evt, outcome)
    IN  IF r.err # ""
        THEN [sends |-> <<r, Send(p.sender, evt, outcome)>>,
              err |-> IF Send(p.sender, evt, outcome).err # ""
                      THEN "queue provider send failed" ELSE ""]
        ELSE [sends |-> <<r>>, err |-> ""]

\* queuePublisher.Publish: sends are the Send calls it made
Publish(p, evt, outcome) ==
    LET r == Send(p.sender, evt, outcome)
    IN  IF r.err # ""
        THEN [sends |-> <<r>>, err |-> "queue provider send failed"]
        ELSE [sends |-> <<r>>, err |-> ""]

\* faulty variant of contains: nothing is ever found
containsNever(persistent, store, id) == FALSE

\* Seen-Item Store: contains; the no-op store never contains anything
contains(persistent, store, id) == persistent /\ id \in store

\* faulty variant of markSeen: nothing is stored
markSeenDropped(persistent, store, ids) == store

\* Seen-Item Store: markSeen; the no-op store succeeds trivially
markSeen(persistent, store, ids) == IF persistent THEN store \cup ids ELSE store

\* faulty variant of NextPos: a failed delivery ends the fan-out of the event
NextPosAbortOnErr(pos, nsinks, err) ==
    IF pos[2] < nsinks /\ err = "" THEN <<pos[1], pos[2] + 1>> ELSE <<pos[1] + 1, 1>>

\* fan-out order: every sink for an item, then the next item; a delivery
\* error does not change it
NextPos(pos, nsinks, err) ==
    IF pos[2] < nsinks THEN <<pos[1], pos[2] + 1>> ELSE <<pos[1] + 1, 1>>

InitCycle ==
    /\ cpc = "FETCH"
    /\ cyc = 1
    /\ dedupe \in BOOLEAN
    /\ sinks \in ActiveSets
    /\ citems = <<>>
    /\ cadmitted = <<>>
    /\ cpos = <<1, 1>>
    /\ seen = {}
    /\ lastPub = <<>>
    /\ cdeliv = [s \in DOMAIN sinks |->
                    [id \in { it.ID : it \in CycleItems } |->
                        [calls |-> 0, ok |-> 0, lastCall |-> 0, lastOK |-> 0]]]
    /\ chanded = {}
    /\ creturned = <<>>

\* FETCH succeeds: the provider's fetcher returns items
CycleFetch ==
    /\ cpc = "FETCH"
    /\ \E feed \in Feeds :
          /\ citems' = feed
          /\ creturned' = Append(creturned, IDs(feed))
    /\ cpc' = "ENRICH"
    /\ UNCHANGED <<cyc, dedupe, sinks, cadmitted, cpos, seen, lastPub, cdeliv, chanded>>
    /\ UNCHANGED <<evars, pvars, fvars, ovars>>

\* FETCH fails: the provider's cycle is aborted and reported
CycleFetchFail ==
    /\ cpc = "FETCH"
    /\ creturned' = Append(creturned, {})
    /\ cpc' = "FAILED"
    /\ UNCHANGED <<cyc, dedupe, sinks, citems, cadmitted, cpos, seen, lastPub, cdeliv,
                   chanded>>
    /\ UNCHANGED <<evars, pvars, fvars, ovars>>

\* ENRICH: item failures are absorbed; ids, length and order are kept
CycleEnrich ==
    /\ cpc = "ENRICH"
    /\ cpc' = "FILTER"
    /\ UNCHANGED <<cyc, dedupe, sinks, citems, cadmitted, cpos, seen, lastPub, cdeliv,
                   chanded, creturned>>
    /\ UNCHANGED <<evars, pvars, fvars, ovars>>

\* FILTER: items the store contains are dropped
CycleFilter ==
    /\ cpc = "FILTER"
    /\ cadmitted' = SelectSeq(citems, LAMBDA it : ~contains(dedupe, seen, it.ID))
    /\ cpos' = <<1, 1>>
    /\ cpc' = "PUBLISH"
    /\ UNCHANGED <<cyc, dedupe, sinks, citems, seen, lastPub, cdeliv, chanded, creturned>>
    /\ UNCHANGED <<evars, pvars, fvars, ovars>>

\* PUBLISH: the event of the item at cpos is published to the sink at cpos
CyclePublish ==
    /\ cpc = "PUBLISH"
    /\ cpos[1] <= Len(cadmitted)
    /\ LET it == cadmitted[cpos[1]]
           s == cpos[2]
           evt == [ProviderID |-> "P", ID |-> it.ID, URL |-> it.URL]
           r == Publish(sinks[s].pub, evt, sinks[s].outcome)
       IN  /\ lastPub' = [sink |-> s, id |-> it.ID, outcome |-> sinks[s].outcome,
                          sends |-> r.sends, err |-> r.err]
           /\ cdeliv' = [cdeliv EXCEPT ![s][it.ID] =
                            [calls |-> @.calls + 1,
                             ok |-> IF r.err = "" THEN @.ok + 1 ELSE @.ok,
                             lastCall |-> cyc,
                             lastOK |-> IF r.err = "" THEN cyc ELSE @.lastOK]]
           /\ chanded' = chanded \cup {it.ID}
           /\ cpos' = NextPos(cpos, Len(sinks), r.err)
    /\ UNCHANGED <<cpc, cyc, dedupe, sinks, citems, cadmitted, seen, creturned>>
    /\ UNCHANGED <<evars, pvars, fvars, ovars>>

\* PUBLISH is over when every admitted item went through fan-out
CyclePublishDone ==
    /\ cpc = "PUBLISH"
    /\ cpos[1] > Len(cadmitted)
    /\ cpc' = "MARK_SEEN"
    /\ UNCHANGED <<cyc, dedupe, sinks, citems, cadmitted, cpos, seen, lastPub, cdeliv,
                   chanded, creturned>>
    /\ UNCHANGED <<evars, pvars, fvars, ovars>>

\* MARK_SEEN: the items handed to fan-out are marked, also when every sink
\* failed
CycleMarkSeen ==
    /\ cpc = "MARK_SEEN"
    /\ seen' = markSeen(dedupe, seen, chanded)
    /\ cpc' = "DONE"
    /\ UNCHANGED <<cyc, dedupe, sinks, citems, cadmitted, cpos, lastPub, cdeliv, chanded,
                   creturned>>
    /\ UNCHANGED <<evars, pvars, fvars, ovars>>

\* the scheduler starts the provider's next cycle
CycleNext ==
    /\ cpc \in {"DONE", "FAILED"}
    /\ cyc < MaxCycles
    /\ cyc' = cyc + 1
    /\ cpc' = "FETCH"
    /\ citems' = <<>>
    /\ cadmitted' = <<>>
    /\ cpos' = <<1, 1>>
    /\ chanded' = {}
    /\ UNCHANGED <<dedupe, sinks, seen, lastPub, cdeliv, creturned>>
    /\ UNCHANGED <<evars, pvars, fvars, ovars>>

NextCycle ==
    \/ CycleFetch
    \/ CycleFetchFail
    \/ CycleEnrich
    \/ CycleFilter
    \/ CyclePublish
    \/ CyclePublishDone
    \/ CycleMarkSeen
    \/ CycleNext

(***************************************************************************)
(* Part V: fetchAndParse on its own, over the articles a feed can yield    *)
(* and the pages a site can serve.                                         *)
(***************************************************************************)
\* item URLs: lower-case scheme, upper-case scheme, a text url.Parse rejects
OverlayItemURLs ==
    { ArticleURL(1),
      [scheme |-> "HTTPS", host |-> "news.example", path |-> <<"a", 2>>],
      [scheme |-> "https", host |-> "news.example", path |-> <<"a", "100%", "b">>] }

OverlayArticles ==
    { [ID |-> hashURL(u), Title |-> t, URL |-> u, Description |-> d, ImageURL |-> img,
       Keywords |-> <<"k">>, PublishedAt |-> 1] :
        u \in OverlayItemURLs, t \in {"", "feed title"}, d \in {"", "feed description"},
        img \in {NoURL, [scheme |-> "https", host |-> "img.example", path |-> <<"f", 1>>]} }

\* og:image values: none, a path, a host and path, absolute with a lower-case
\* and with an upper-case scheme, a path url.Parse rejects
OverlayImages ==
    { NoURL,
      [scheme |-> "",      host |-> "",            path |-> <<"i", 0>>],
      [scheme |-> "",      host |-> "cdn.example", path |-> <<"i", 1>>],
      [scheme |-> "https", host |-> "cdn.example", path |-> <<"i", 2>>],
      [scheme |-> "HTTPS", host |-> "cdn.example", path |-> <<"i", 3>>],
      [scheme |-> "",      host |-> "",            path |-> <<"img", "100%", "png">>] }

OverlayResponses ==
    { TransportError, Status404, BadHTML }
    \cup { [err |-> FALSE, status |-> 200, parseErr |-> FALSE,
            meta |-> [Title |-> t, Description |-> d, ImageURL |-> img]] :
             t \in {"", "page title"}, d \in {"", "page description"},
             img \in OverlayImages }

InitOverlay ==
    /\ opc = "start"
    /\ oart \in OverlayArticles
    /\ oresp \in OverlayResponses
    /\ ores = NoResult

\* fetchAndParse runs on the article with the page that was served
Overlay ==
    /\ opc = "start"
    /\ ores' = fetchAndParse(oart, oresp)
    /\ opc' = "done"
    /\ UNCHANGED <<oart, oresp>>
    /\ UNCHANGED <<evars, pvars, fvars, cvars>>

(***************************************************************************)
(* Specifications.                                                         *)
(***************************************************************************)
vars == <<evars, pvars, fvars, cvars, ovars>>

\* the part that is not running stays in its initial state
IdleEnrich ==
    /\ articles = <<>> /\ delay = 0 /\ ctxDone = FALSE /\ out = <<>>
    /\ epc = "idle" /\ idx = 0 /\ jobClosed = FALSE
    /\ wpc = [w \in Workers |-> "idle"] /\ wjob = [w \in Workers |-> -1]
    /\ wres = [w \in Workers |-> NoResult]
    /\ limiterTick = FALSE /\ ticksFired = 0 /\ tickerOn = FALSE
    /\ wread = [w \in Workers |-> "-"]
    /\ fetchCount = 0 /\ log = <<>>

IdlePublishers ==
    /\ ppc = "idle" /\ pfile = <<>> /\ reg = <<>> /\ loadErr = "" /\ loadAt = 0
    /\ bcfgs = <<>> /\ bsdk = <<>> /\ pubs = <<>> /\ buildErr = ""

IdleFetch ==
    /\ fpc = "idle" /\ freg = <<>> /\ fcfg = [ID |-> <<>>, Type |-> <<>>, SourceURL |-> <<>>]
    /\ ffetcher = NoFetcher /\ fstack = <<>> /\ fvisited = {} /\ furls = <<>>
    /\ fitems = <<>> /\ ferr = "" /\ freq = <<>>

IdleCycle ==
    /\ cpc = "idle" /\ cyc = 0 /\ dedupe = FALSE /\ sinks = <<>> /\ citems = <<>>
    /\ cadmitted = <<>> /\ cpos = <<0, 0>> /\ seen = {} /\ lastPub = <<>>
    /\ cdeliv = <<>> /\ chanded = {} /\ creturned = <<>>

IdleOverlay ==
    /\ opc = "idle" /\ oart = ZeroArticle /\ oresp = TransportError /\ ores = NoResult

\* one Enrich call
Init == InitEnrich /\ IdlePublishers /\ IdleFetch /\ IdleCycle /\ IdleOverlay

Next == NextEnrich

Spec == Init /\ [][Next]_vars

\* loading the publishers file and building the sinks
InitP == InitPublishers /\ IdleEnrich /\ IdleFetch /\ IdleCycle /\ IdleOverlay

NextP == NextPublishers

SpecPublishers == InitP /\ [][NextP]_vars

\* one provider fetch; the goroutine that resolves the sitemap runs on until
\* fetchGoogleNewsURLs returns (client.Get answers or times out)
\* building sinks from configurations that were not validated
InitS == InitSinks /\ IdleEnrich /\ IdleFetch /\ IdleCycle /\ IdleOverlay

SpecSinks == InitS /\ [][BuildDirect]_vars

\* loading a publishers file and building its enabled sinks
InitL == InitLoad /\ IdleEnrich /\ IdleFetch /\ IdleCycle /\ IdleOverlay

SpecLoad == InitL /\ [][LoadOK \/ LoadFail \/ BuildEnabled]_vars

InitF == InitFetch /\ IdleEnrich /\ IdlePublishers /\ IdleCycle /\ IdleOverlay

SpecFetch == InitF /\ [][NextFetch]_vars /\ WF_vars(GoogleCall \/ GoogleLoop)

\* one fetchAndParse call
InitO == InitOverlay /\ IdleEnrich /\ IdlePublishers /\ IdleFetch /\ IdleCycle

SpecOverlay == InitO /\ [][Overlay]_vars

\* the crawl cycles of one provider; the orchestrator runs its steps
InitC == InitCycle /\ IdleEnrich /\ IdlePublishers /\ IdleFetch /\ IdleOverlay

SpecCycle ==
    InitC /\ [][NextCycle]_vars
          /\ WF_vars(CyclePublish \/ CyclePublishDone \/ CycleMarkSeen)

(***************************************************************************)
(* Properties of Enrich, stated for Spec.                                   *)
(***************************************************************************)
Started == epc \in {"loop", "send", "wait", "returned"}

Returned == epc = "returned"

\* what fetchAndParse can make of an article, over every response
EnrichedVersions(art) == { fetchAndParse(art, r).art : r \in Responses }

\* what a successful scrape can make of an article
SuccessVersions(art) ==
    { fetchAndParse(art, r).art : r \in {q \in Responses : ~fetchAndParse(art, q).err} }

\* item i has been stored by a worker
Stored(i) == log[i].writes > 0

\* the page fetch of item i failed: transport error, bad status or bad HTML
FetchFailed(i) == log[i].result = "fail"

FetchSucceeded(i) == log[i].result = "ok"

\* C1: from the moment Enrich has copied its input, and so in the slice it
\* returns, out has exactly as many elements as the input and out[i] is
\* input[i] or an enriched version of input[i], whatever the delay and
\* wherever cancellation fires.
C1_LengthOrder ==
    Started =>
        /\ Len(out) = Len(articles)
        /\ \A i \in 1 .. Len(articles) :
              out[i] = articles[i] \/ out[i] \in EnrichedVersions(articles[i])

\* C1 witness: a cancelled call over three items has returned with one item
\* enriched and a later one untouched.
C1_Witness ==
    /\ Returned /\ ctxDone /\ Len(articles) = 3
    /\ \E i, j \in 1 .. Len(articles) :
          /\ i < j
          /\ out[i] # articles[i] /\ out[i] \in EnrichedVersions(articles[i])
          /\ out[j] = articles[j]

\* C2 (as claimed): the dispatcher is never left blocked in `jobCh <- idx`
\* with every worker gone, a state from which Enrich cannot return.
C2_DispatcherNeverStranded ==
    ~(epc = "send" /\ \A w \in Workers : wpc[w] \in {"idle", "done"})

\* C3: a failed page fetch of item k leaves out[k] equal to input[k], and the
\* value of every item is decided by its own fetch alone: it is the enriched
\* version when its own fetch succeeded and the input otherwise, whatever
\* happened to the other items.
C3_NonPropagation ==
    Started =>
        \A k \in 1 .. Len(articles) :
            /\ FetchFailed(k) => out[k] = articles[k]
            /\ IF Stored(k) /\ FetchSucceeded(k)
               THEN out[k] \in SuccessVersions(articles[k])
               ELSE out[k] = articles[k]

\* C3 witness: the call returned without cancellation, item k failed and
\* kept its input value while another item was enriched.
C3_Witness ==
    /\ Returned /\ ~ctxDone
    /\ \E k, j \in 1 .. Len(articles) :
          /\ k # j
          /\ Stored(k) /\ FetchFailed(k) /\ out[k] = articles[k]
          /\ Stored(j) /\ FetchSucceeded(j) /\ out[j] # articles[j]

\* C4 (as claimed): no call of client.Get is made once ctx is cancelled.
C4_NoFetchAfterCancel ==
    \A i \in 1 .. Len(articles) : log[i].start # "cancelled"

\* C4 (amended): an index that a worker receives after the cancellation
\* signal has fired is never fetched, and a worker that has no index in hand
\* when the signal fires starts no further fetch; a response that was read
\* successfully is written to its slot even when cancellation fires
\* before the write.
C4_NoFetchForJobsAfterCancel ==
    /\ \A i \in 1 .. Len(articles) : log[i].recv = "cancelled" => log[i].start = "-"
    /\ Returned =>
          \A i \in 1 .. Len(articles) :
             FetchSucceeded(i) => out[i] \in SuccessVersions(articles[i])

\* C4 witness: the call returned; one index was received after the signal
\* and never fetched, another was read before the signal, written after it
\* and is enriched in the result.
C4_Witness ==
    /\ Returned
    /\ \E i, j \in 1 .. Len(articles) :
          /\ log[i].recv = "cancelled" /\ log[i].start = "-"
          /\ log[j].across
          /\ FetchSucceeded(j) /\ out[j] # articles[j]

\* C5: when Enrich has returned every worker it started has finished, so no
\* worker is fetching or about to write.
C5_WorkersJoined ==
    Returned => \A w \in Workers : wpc[w] \in {"idle", "done"} /\ wjob[w] = -1

\* C5 witness: a cancelled call returned after its workers fetched and exited.
C5_Witness ==
    /\ Returned /\ ctxDone /\ fetchCount >= 1
    /\ \E w \in Workers : wpc[w] = "done"

\* C6: the number of workers, and of fetches in flight, never exceeds
\* min(N, maxArticleWorkers); for N = 0 there is no worker and no fetch.
StartedWorkers == { w \in Workers : wpc[w] # "idle" }

InFlight == { w \in Workers : wpc[w] = "inflight" }

C6_BoundedConcurrency ==
    /\ Cardinality(StartedWorkers) <= Min(Len(articles), maxArticleWorkers)
    /\ Cardinality(InFlight) <= Min(Len(articles), maxArticleWorkers)
    /\ Len(articles) = 0 => StartedWorkers = {} /\ fetchCount = 0

\* C6 witness: the longest slice, and the whole pool fetching at once.
C6_Witness ==
    /\ Len(articles) = MaxArticles
    /\ Cardinality(InFlight) = Min(Len(articles), maxArticleWorkers)

\* C7: with a positive delay the fetches started never outnumber the ticks
\* fired; with no delay there is no ticker and no worker waits on a gate.
C7_PacingGate ==
    /\ delay > 0 => fetchCount <= ticksFired
    /\ delay = 0 => /\ ticksFired = 0 /\ ~tickerOn
                    /\ \A w \in Workers : wpc[w] # "limit"

\* C7 witness: with a delay, two fetches were released by exactly two ticks
\* while another worker waits at the gate.
C7_Witness ==
    /\ delay > 0 /\ fetchCount = 2 /\ ticksFired = 2
    /\ \E w \in Workers : wpc[w] = "limit"

\* C8: enrichment never changes id, url, keywords or publication date of an
\* item, whatever the outcome of its fetch.
C8_IdentityPreserved ==
    Started =>
        \A i \in 1 .. Len(articles) :
            /\ out[i].ID = articles[i].ID
            /\ out[i].URL = articles[i].URL
            /\ out[i].Keywords = articles[i].Keywords
            /\ out[i].PublishedAt = articles[i].PublishedAt

\* C8 witness: an item whose title, description and image were rewritten,
\* the image resolved against the item's own URL.
C8_Witness ==
    /\ Returned
    /\ \E i \in 1 .. Len(articles) :
          /\ out[i].Title # articles[i].Title
          /\ out[i].Description # articles[i].Description
          /\ out[i].ImageURL.host = articles[i].URL.host

(***************************************************************************)
(* Properties of startup wiring, stated for SpecPublishers.                 *)
(***************************************************************************)
\* BuildAll would build config i on its own
Buildable(i) == PublisherFor(bcfgs[i], bsdk[i]).err = ""

\* C9 (as claimed): BuildAll returns a publisher for every configuration
\* whose construction succeeds; a failure of one configuration removes no
\* other configuration's publisher.
C9_BuildAllIsolates ==
    ppc = "built" =>
        \A i \in 1 .. Len(bcfgs) :
            Buildable(i) =>
                \E k \in 1 .. Len(pubs) : pubs[k] = PublisherFor(bcfgs[i], bsdk[i]).pub

\* an entry the loader is said to ignore: unrecognized type, or disabled
SanitizedFile == [i \in DOMAIN pfile |-> sanitizePublisherConfig(pfile[i])]

Ignorable(cfg) ==
    \/ cfg.Type # <<>> /\ cfg.Type \notin {TypeQueue, TypeHTTP}
    \/ ~EnabledValue(cfg)

DistinctIDs ==
    \A i, j \in DOMAIN pfile :
        /\ SanitizedFile[i].ID # <<>>
        /\ i # j => SanitizedFile[i].ID # SanitizedFile[j].ID

\* C10 (as claimed): a file whose only defective entries are of unrecognized
\* type or disabled still loads, and the active set is exactly its other
\* entries.
C10_UnknownOrDisabledIgnored ==
    ( /\ ppc \in {"loaded", "loadFailed"}
      /\ Len(pfile) > 0
      /\ DistinctIDs
      /\ \A i \in DOMAIN pfile :
            ~Ignorable(SanitizedFile[i]) => validatePublisherConfig(SanitizedFile[i]) = "" )
    => /\ ppc = "loaded"
       /\ Enabled(reg) = SelectSeq(SanitizedFile, LAMBDA c : ~Ignorable(c))

(***************************************************************************)
(* Properties of the source registry and of a fetch, stated for SpecFetch. *)
(***************************************************************************)
FetchDone == fpc = "done"

\* the registry knows no fetcher for the provider
UnknownProvider == FetcherFor(NewFetcherRegistry(freg), fcfg).err # ""

\* a request of this fetch failed: transport error, a status outside 2xx, or
\* a body that is not XML
RequestFailed(q) == q.err \/ q.status \notin 200 .. 299 \/ ~q.xmlOK

\* C11 (as claimed): the fetcher is selected by the provider's type, so the
\* same configuration under any other id resolves to the same fetcher.
C11_SelectedByType ==
    (fpc \in {"fetch", "resolve", "build", "done"} /\ fcfg.ID # <<>>) =>
        \A id \in ProviderIDs \ {<<>>} :
            FetcherFor(NewFetcherRegistry(freg), [fcfg EXCEPT !.ID = id]).fetcher = ffetcher

\* C12: a fetch that ends with an error ends with zero items and a fetch
\* without error has items; and the fetch does end with an error whenever the
\* provider is unknown to the registry, the source URL is blank, a request
\* failed (transport error, status outside 2xx, undecodable body) or no
\* entry with a URL was found.
C12_FailedFetchYieldsNothing ==
    FetchDone =>
        /\ (ferr # "") <=> (fitems = <<>>)
        /\ UnknownProvider => ferr # ""
        /\ TrimSpace(fcfg.SourceURL) = <<>> => ferr # ""
        /\ (\E i \in DOMAIN freq : RequestFailed(freq[i])) => ferr # "" /\ fitems = <<>>

\* C12 witness: a fetch through nested indexes whose third request failed
\* after the second had returned entries, ending with an error and no item.
C12_Witness ==
    /\ FetchDone /\ ferr # "" /\ fitems = <<>>
    /\ Len(freq) = 3
    /\ ~RequestFailed(freq[2]) /\ RequestFailed(freq[3])

\* C18: the id of an item is decided by its trimmed URL alone: two items of
\* one feed with the same URL have the same id, and the same URL met in any
\* other entry, under any provider, is given that id too.
C18_IdentityDeterminism ==
    FetchDone =>
        \A i \in DOMAIN fitems :
            /\ \A j \in DOMAIN fitems :
                  fitems[i].URL = fitems[j].URL => fitems[i].ID = fitems[j].ID
            /\ \A entry \in SitemapEntries, id \in ProviderIDs :
                  TrimSpace(entry.Loc) = fitems[i].URL
                      => buildArticlesFromSitemap(id, <<entry>>)[1].ID = fitems[i].ID

\* C18 witness: a feed returned the same URL twice, written differently and
\* with different titles, keywords, images and dates.
C18_Witness ==
    /\ FetchDone
    /\ \E i, j \in DOMAIN fitems :
          /\ i # j
          /\ fitems[i].URL = fitems[j].URL
          /\ fitems[i].Title # fitems[j].Title
          /\ fitems[i].Keywords # fitems[j].Keywords
          /\ fitems[i].ImageURL # fitems[j].ImageURL
          /\ fitems[i].PublishedAt # fitems[j].PublishedAt

\* C20: the resolution of sitemap indexes ends: the calls in progress never
\* outnumber the URLs visited by more than one, no more requests are made
\* than there are URLs, and every resolution that starts returns to Fetch.
C20_ResolutionTerminates ==
    /\ [](/\ Len(fstack) <= Cardinality(fvisited) + 1
          /\ Len(freq) <= Cardinality(SitemapURLs) + 1)
    /\ (fpc = "resolve") ~> (fpc # "resolve")

\* C20 witness: a cycle of three indexes (the source, a second, a third
\* that refers back to the source) has been walked and the reference back
\* to the source has returned without a request.
C20_Witness ==
    /\ fpc = "resolve"
    /\ Len(fstack) = 3
    /\ Top.phase = "loop" /\ Top.pos = 2 /\ Top.all = <<>>
    /\ Top.indexURLs[1] = fstack[1].url
    /\ Len(freq) = 3

(***************************************************************************)
(* Properties of the overlay, stated for SpecOverlay.                      *)
(***************************************************************************)
OverlayDone == opc = "done" /\ ~ores.err

\* the value the policy gives a text field: the extracted one unless empty
Overlaid(extracted, original) == IF extracted # "" THEN extracted ELSE original

\* img is ref resolved against the item URL base: the base's scheme, the
\* reference's host when it names one and the base's otherwise, the
\* reference's path
ResolvedAgainst(img, ref, base) ==
    /\ LowerScheme(img.scheme) = LowerScheme(base.scheme)
    /\ img.host = (IF ref.host # "" THEN ref.host ELSE base.host)
    /\ img.path = ref.path

SupportedQueueProviders == {QueueProviderAWSSQS, QueueProviderAWSSNS, QueueProviderGCP}

\* the section of the queue configuration that belongs to its provider
ProviderSection(q) ==
    IF q.Provider = QueueProviderAWSSQS THEN q.AWS
    ELSE IF q.Provider = QueueProviderAWSSNS THEN q.SNS
    ELSE q.GCP

\* a configuration the claim says cannot become a queue sink
CannotBuild(cfg) ==
    \/ cfg.Queue = Nil
    \/ cfg.Queue.Provider \notin SupportedQueueProviders
    \/ ProviderSection(cfg.Queue) = Nil

IsQueueSink(typ) == ToLower(typ) = TypeQueue

\* C17: newQueuePublisher on a configuration without queue section, with a
\* provider other than aws-sqs, aws-sns and gcp (azure included) or without
\* the provider's section returns an error and no publisher, and BuildAll
\* over a list holding such a queue entry yields an error and no sink; every
\* queue publisher that was built has a sender.
C17_QueueConstruction ==
    ppc = "built" =>
        /\ \A i \in DOMAIN bcfgs :
              CannotBuild(bcfgs[i]) =>
                  /\ newQueuePublisher(bcfgs[i], bsdk[i]).err # ""
                  /\ newQueuePublisher(bcfgs[i], bsdk[i]).pub = NoPublisher
        /\ \A i \in DOMAIN bcfgs :
              IsQueueSink(bcfgs[i].Type) /\ CannotBuild(bcfgs[i]) =>
                  buildErr # "" /\ pubs = <<>>
        /\ \A j \in DOMAIN pubs :
              IsQueueSink(pubs[j].typ) => pubs[j].sender # NoSender

\* C17 witness: BuildAll built an SNS sender for its first entry and then
\* failed on an azure entry.
C17_Witness ==
    /\ ppc = "built"
    /\ Len(bcfgs) = 2
    /\ IsQueueSink(bcfgs[1].Type) /\ ~CannotBuild(bcfgs[1])
    /\ newQueuePublisher(bcfgs[1], bsdk[1]).pub.sender = "awsSNSSender"
    /\ IsQueueSink(bcfgs[2].Type) /\ bcfgs[2].Queue # Nil
    /\ bcfgs[2].Queue.Provider = QueueProviderAzure
    /\ buildErr = "queue provider not implemented"
    /\ pubs = <<>>

(***************************************************************************)
(* Properties of the crawl cycle, stated for SpecCycle.                    *)
(***************************************************************************)
\* the steps of one cycle, each with the step that may follow it
StepOrder ==
    { <<"FETCH", "ENRICH">>, <<"FETCH", "FAILED">>, <<"ENRICH", "FILTER">>,
      <<"FILTER", "PUBLISH">>, <<"PUBLISH", "MARK_SEEN">>, <<"MARK_SEEN", "DONE">> }

\* C13: within a cycle the step changes only along FETCH, ENRICH, FILTER,
\* PUBLISH, MARK_SEEN, DONE, or from FETCH to FAILED, and a new cycle starts
\* at FETCH after DONE or FAILED only; ids enter the seen store in MARK_SEEN
\* only, and only ids of items that FILTER admitted and that were handed to
\* fan-out; an event is published in PUBLISH only, for an admitted item
\* whose id the seen store does not hold; after FAILED nothing is admitted,
\* handed to fan-out, published or marked in that cycle.
C13_PipelineOrder ==
    [][ /\ (cpc' # cpc /\ cyc' = cyc) => <<cpc, cpc'>> \in StepOrder
        /\ cyc' # cyc => cpc \in {"DONE", "FAILED"} /\ cpc' = "FETCH"
        /\ seen' # seen =>
              /\ cpc = "MARK_SEEN"
              /\ (seen' \ seen) \subseteq chanded
              /\ chanded \subseteq IDs(cadmitted)
        /\ cdeliv' # cdeliv =>
              /\ cpc = "PUBLISH"
              /\ lastPub'.id \in IDs(cadmitted)
              /\ lastPub'.id \notin seen
              /\ cdeliv'[lastPub'.sink][lastPub'.id].calls
                     = cdeliv[lastPub'.sink][lastPub'.id].calls + 1
        /\ cpc = "FAILED" =>
              /\ cadmitted = <<>> /\ chanded = {}
              /\ seen' = seen /\ cdeliv' = cdeliv
              /\ cpc' \in {"FAILED", "FETCH"}
      ]_vars

\* C13 witness: the second cycle is DONE; its feed held an item the store
\* knew from the first cycle, which was filtered, and a new item, which was
\* admitted, handed to fan-out and marked.
C13_Witness ==
    /\ cpc = "DONE" /\ cyc = 2 /\ dedupe
    /\ \E i \in DOMAIN citems : citems[i].ID \notin IDs(cadmitted)
    /\ \E id \in chanded : id \in seen /\ id \notin creturned[1]

\* ids returned by the successful fetches so far
ReturnedIn(k) == IF k \in DOMAIN creturned THEN creturned[k] ELSE {}

\* number of cycles so far whose fetch returned id
RECURSIVE TimesReturned(_, _)
TimesReturned(id, k) ==
    IF k = 0 THEN 0
    ELSE TimesReturned(id, k - 1) + (IF id \in ReturnedIn(k) THEN 1 ELSE 0)

C15_FanOutIsolation ==
    /\ [](cpc \in {"MARK_SEEN", "DONE"} =>
             \A i \in DOMAIN cadmitted :
                 \A s \in DOMAIN sinks :
                     /\ cdeliv[s][cadmitted[i].ID].lastCall = cyc
                     /\ sinks[s].outcome = "ok" => cdeliv[s][cadmitted[i].ID].lastOK = cyc)
    /\ [](cpc = "PUBLISH" =>
             /\ cpos[1] <= Len(cadmitted) + 1
             /\ cpos[2] <= Len(sinks))
    /\ (cpc = "PUBLISH") ~> (cpc = "DONE")

\* C15 witness: the first sink failed, the second one received the event,
\* and the cycle is done.
C15_Witness ==
    /\ cpc = "DONE"
    /\ Len(sinks) > 1 /\ sinks[1].outcome = "sendErr" /\ sinks[2].outcome = "ok"
    /\ Len(cadmitted) > 0
    /\ cdeliv[1][cadmitted[1].ID].ok = 0
    /\ cdeliv[1][cadmitted[1].ID].lastCall = cyc
    /\ cdeliv[2][cadmitted[1].ID].lastOK = cyc

\* C16: every Publish of a queue sink made exactly one Send call, whether
\* that Send failed or not, and returned an error exactly when the Send did.
C16_OneSendPerPublish ==
    lastPub # <<>> =>
        /\ Len(lastPub.sends) = 1
        /\ (lastPub.err # "") <=> (lastPub.sends[1].err # "")
        /\ Len(lastPub.sends[1].requests) <= 1

\* C16 witness: a Publish whose Send failed at the provider.
C16_Witness ==
    /\ lastPub # <<>>
    /\ lastPub.outcome = "sendErr"
    /\ lastPub.err # ""
    /\ Len(lastPub.sends) = 1
    /\ Len(lastPub.sends[1].requests) = 1

(***************************************************************************)
(* Properties of the sitemap resolution, stated for SpecFetch.             *)
(***************************************************************************)
\* the request was answered with a document fetchSitemap and the decoders
\* accept
Served(q) == ~q.err /\ q.status = StatusOK /\ q.xmlOK

\* the provider's sitemap is an index whose only references are to itself
SelfIndexFetched ==
    /\ FetchDone
    /\ Len(freq) > 0
    /\ freq[1].url = fcfg.SourceURL
    /\ Served(freq[1]) /\ freq[1].doc = "self"

\* C21 (as claimed): fetching a provider whose sitemap is an index that
\* points only to itself ends with an empty result and no error.
C21_SelfIndexEmptyNoError ==
    SelfIndexFetched => ferr = "" /\ fitems = <<>>

\* C21 (amended): such a fetch makes one request only and the resolution
\* yields no entry, and Fetch then returns no item and the error "sitemap
\* returned no records".
C21_SelfIndexNoRecords ==
    SelfIndexFetched =>
        /\ Len(freq) = 1
        /\ furls = <<>>
        /\ fitems = <<>>
        /\ ferr = "sitemap returned no records"

\* C21 witness: a fetch of a self-referencing index has ended.
C21_Witness ==
    /\ SelfIndexFetched
    /\ ffetcher.kind = "googleNews"
    /\ fvisited = {fcfg.SourceURL}
    /\ ferr # ""

\* C22 (as claimed): the nested index levels followed in one fetch stay
\* below a fixed bound, so a chain of distinct nested indexes is not
\* followed through every sitemap the feed can name: the calls in progress
\* never form a chain of indexes over all the sitemap URLs.
C22_DepthBounded ==
    ~ /\ fpc = "resolve"
      /\ Len(fstack) = Cardinality(SitemapURLs)
      /\ \A i \in DOMAIN fstack : fstack[i].phase = "loop"
      /\ \A i, j \in DOMAIN fstack : fstack[i].url = fstack[j].url => i = j

\* C23: within one fetch no sitemap URL is requested twice, and a request
\* that failed (transport error, a status other than 200) is the last
\* request of the fetch: neither it nor any other is issued afterwards.
C23_NoRetryNoRevisit ==
    /\ \A i, j \in DOMAIN freq : freq[i].url = freq[j].url => i = j
    /\ \A i \in DOMAIN freq :
          (freq[i].err \/ freq[i].status # StatusOK) => i = Len(freq) /\ fpc = "done"
    /\ \A i \in DOMAIN freq : freq[i].url \in fvisited \/ ffetcher.kind = "site"

\* C23 witness: every sitemap URL was requested, the last document was an
\* index whose references had all been requested before, and the fetch
\* ended without another request.
C23_Witness ==
    /\ FetchDone
    /\ Len(freq) = Cardinality(SitemapURLs)
    /\ Served(freq[Len(freq)]) /\ freq[Len(freq)].doc = "index"
    /\ fvisited = SitemapURLs

\* the innermost call returned value to its caller, or to Fetch when it was
\* the outermost call
CallReturned(value) ==
    IF Len(fstack) = 1
    THEN fstack' = <<>> /\ fpc' = "build" /\ furls' = value
    ELSE /\ Len(fstack') = Len(fstack) - 1
         /\ fstack'[Len(fstack')].all = fstack[Len(fstack')].all \o value
         /\ fstack'[Len(fstack')].pos = fstack[Len(fstack')].pos + 1
         /\ fstack'[Len(fstack')].indexURLs = fstack[Len(fstack')].indexURLs
         /\ fpc' = "resolve"

\* C29: a document with a direct url entry ends its call at once with
\* entries, whether it names nested sitemaps or not; a document with nested
\* references only is walked in document order, one reference after the
\* other, and what each nested call returns is appended to what was
\* collected before; a request or decoding that fails ends the whole fetch
\* with an error, no entries and no items, whatever had been collected.
C29_AllOrNothing ==
    [][ /\ (fpc = "resolve" /\ Len(freq') = Len(freq) + 1) =>
              LET q == freq'[Len(freq')]
              IN  /\ (Served(q) /\ q.doc \in {"urls", "both"}) =>
                        /\ \E value \in URLSets \cup {<<EntryU2>>} :
                              Len(value) > 0 /\ CallReturned(value)
                        /\ q.doc = "both" => CallReturned(<<EntryU2>>)
                        /\ Len(freq') <= Cardinality(fvisited')
                  /\ (Served(q) /\ q.doc \in {"index", "self"}) =>
                        /\ Len(fstack') = Len(fstack)
                        /\ fstack'[Len(fstack)].phase = "loop"
                        /\ fstack'[Len(fstack)].pos = 1
                        /\ fstack'[Len(fstack)].all = <<>>
                        /\ fstack'[Len(fstack)].indexURLs # <<>>
                  /\ ~Served(q) =>
                        /\ fstack' = <<>> /\ fpc' = "done"
                        /\ ferr' # "" /\ fitems' = <<>> /\ furls' = <<>>
        /\ (fpc = "resolve" /\ Len(freq') = Len(freq) /\ fstack' # fstack
               /\ Top.phase = "loop") =>
              IF Top.pos > Len(Top.indexURLs) THEN CallReturned(Top.all)
              ELSE IF TrimSpace(Top.indexURLs[Top.pos]) = <<>>
              THEN fstack' = [fstack EXCEPT ![Len(fstack)].pos = @ + 1]
              ELSE /\ Len(fstack') = Len(fstack) + 1
                   /\ fstack'[Len(fstack')].url = TrimSpace(Top.indexURLs[Top.pos])
                   /\ \A i \in DOMAIN fstack : fstack'[i] = fstack[i]
        /\ (fpc = "resolve" /\ fpc' = "done") => ferr' # "" /\ fitems' = <<>>
        /\ (fitems # fitems') => fpc \in {"fetch", "build"} /\ ferr' = ""
      ]_vars

\* C29 witness: the source was an index, its first nested sitemap returned
\* entries, its second could not be decoded, and the fetch ended with an
\* error and no item.
C29_Witness ==
    /\ FetchDone /\ ferr # "" /\ fitems = <<>> /\ furls = <<>>
    /\ Len(freq) = 3
    /\ Served(freq[1]) /\ freq[1].doc = "index"
    /\ Served(freq[2]) /\ freq[2].doc = "urls"
    /\ ~freq[3].xmlOK /\ freq[3].status = StatusOK

\* the entry has a URL: its loc holds something other than whitespace
HasURL(entry) == \E i \in DOMAIN entry.Loc : entry.Loc[i] \notin SpaceChars

\* C25: the items of a fetch are built of exactly the entries with a URL, in
\* feed order: item k has the trimmed URL of the k-th such entry, which is
\* not empty, and the id derived from it; a feed in which no entry has a URL
\* yields no item.
C25_EntriesWithoutURLDropped ==
    (FetchDone /\ ffetcher.kind = "googleNews"
       /\ ferr \in {"", "sitemap returned no records"}) =>
        LET kept == SelectSeq(furls, HasURL)
        IN  /\ Len(fitems) = Len(kept)
            /\ \A k \in DOMAIN fitems :
                  /\ fitems[k].URL = TrimSpace(kept[k].Loc)
                  /\ fitems[k].URL # <<>>
                  /\ \A i \in DOMAIN fitems[k].URL : fitems[k].URL[i] \notin SpaceChars
                  /\ fitems[k].ID = hashURL(fitems[k].URL)
            /\ (ferr # "") <=> (kept = <<>>)

\* C25 witness: a feed of an entry without URL followed by an entry with
\* one gave a single item, that of the second entry.
C25_Witness ==
    /\ FetchDone /\ ffetcher.kind = "googleNews" /\ ferr = ""
    /\ Len(furls) = 2 /\ ~HasURL(furls[1]) /\ HasURL(furls[2])
    /\ Len(fitems) = 1
    /\ fitems[1].URL = furls[2].Loc

\* C28: a source fetch fails on its status only when the status is outside
\* the 2xx class: a fetch that ended with the status error had its last
\* response outside 200-299, and a response that was delivered with a 2xx
\* status never ends the fetch with that error.
C28_SuccessBy2xxClass ==
    (FetchDone /\ Len(freq) > 0 /\ ferr = "sitemap returned status") =>
        LET q == freq[Len(freq)]
        IN  ~q.err /\ q.status \notin 200..299

(***************************************************************************)
(* Properties of the enabled flag, stated for SpecLoad.                    *)
(***************************************************************************)
\* the entry was written with enabled true or without the flag
WantedEnabled(e) == e.Enabled \in {"true", "nil"}

\* C24: after a successful load, Enabled() is the entries of All() whose flag
\* was true or not given in the file, in the order of the file; no entry
\* written with enabled=false is in Enabled(), nor among the configurations
\* passed to construction.
C24_EnabledDefaultsTrue ==
    (ppc \in {"loaded", "built"}) =>
        LET wanted == SelectSeq(pfile, WantedEnabled)
            places == { i \in DOMAIN pfile : WantedEnabled(pfile[i]) }
        IN  /\ All(reg) = [i \in DOMAIN pfile |-> sanitizePublisherConfig(pfile[i])]
            /\ Enabled(reg) = [k \in DOMAIN wanted |-> sanitizePublisherConfig(wanted[k])]
            /\ Len(Enabled(reg)) = Cardinality(places)
            /\ \A i \in DOMAIN pfile : pfile[i].Enabled = "false" =>
                  /\ \A k \in DOMAIN Enabled(reg) : Enabled(reg)[k] # All(reg)[i]
                  /\ ppc = "built" => \A k \in DOMAIN bcfgs : bcfgs[k] # All(reg)[i]
            /\ ppc = "built" => bcfgs = Enabled(reg)

\* C24 witness: a file of a disabled sink followed by a sink without the
\* flag was loaded, and the second sink alone was passed to construction.
C24_Witness ==
    /\ ppc = "built" /\ Len(pfile) = 2
    /\ pfile[1].Enabled = "false" /\ pfile[2].Enabled = "nil"
    /\ Len(All(reg)) = 2
    /\ Len(bcfgs) = 1 /\ bcfgs[1].ID = TrimSpace(pfile[2].ID)
    /\ bcfgs[1].Enabled = "true"

(***************************************************************************)
(* Properties of the dispatch of indices, stated for Spec.                 *)
(***************************************************************************)
\* C26: every index is handed out at most once and held by at most one
\* worker; a slot is written at most once and only for an index that was
\* handed out and is no longer held; a step that changes a slot is the write
\* of the one worker that holds the index of that slot.
C26_SingleWriterPerSlot ==
    /\ [](/\ \A i \in DOMAIN log :
                /\ log[i].handed <= 1
                /\ log[i].writes <= log[i].handed
          /\ \A w \in Workers : wjob[w] # -1 =>
                /\ wjob[w] + 1 \in DOMAIN log
                /\ log[wjob[w] + 1].handed = 1
                /\ log[wjob[w] + 1].writes = 0
                /\ \A v \in Workers : v # w => wjob[v] # wjob[w])
    /\ [][ (epc # "call" /\ out' # out) =>
              \E w \in Workers :
                  /\ wpc[w] = "store" /\ wpc'[w] = "recv"
                  /\ wjob[w] # -1 /\ wjob'[w] = -1
                  /\ \A i \in DOMAIN out : out'[i] # out[i] => i = wjob[w] + 1
         ]_vars

\* C26 witness: two workers are about to write, each the slot of the index
\* it received; the two indices differ.
C26_Witness ==
    \E w, v \in Workers :
        /\ w # v /\ wpc[w] = "store" /\ wpc[v] = "store"
        /\ wjob[w] # wjob[v]
        /\ log[wjob[w] + 1].handed = 1 /\ log[wjob[v] + 1].handed = 1
        /\ ~wres[w].err /\ ~wres[v].err

\* C27: indices are handed out in increasing order; once the dispatcher has
\* seen the cancellation at its loop head it leaves the loop and no index
\* is handed out afterwards; an item for which no fetch was started (its
\* index was never handed out, or its worker left on cancellation) keeps
\* its input value in the result.
C27_DispatchUnderCancellation ==
    /\ [](/\ \A i \in DOMAIN log : (log[i].handed > 0) <=> (i <= idx)
          /\ epc # "call" =>
                \A i \in DOMAIN log : log[i].start = "-" => out[i] = articles[i])
    /\ [][ /\ idx' # idx =>
                 /\ idx' = idx + 1
                 /\ log[idx'].handed = 0
                 /\ log'[idx'].handed = 1
           /\ (epc = "loop" /\ ctxDone /\ epc' # epc) => epc' = "wait"
           /\ (epc \in {"wait", "returned"}) =>
                 /\ epc' \in {"wait", "returned"}
                 /\ idx' = idx
         ]_vars

\* C27 witness: Enrich returned after a cancellation: one item was fetched,
\* the worker of a second left before fetching it, a third was never
\* handed out; the last two are returned as they came in.
C27_Witness ==
    /\ epc = "returned" /\ ctxDone
    /\ \E i, j, k \in DOMAIN log :
          /\ i < j /\ j < k
          /\ log[i].handed = 1 /\ log[i].result = "ok" /\ out[i] # articles[i]
          /\ log[j].handed = 1 /\ log[j].start = "-" /\ out[j] = articles[j]
          /\ log[k].handed = 0 /\ out[k] = articles[k]

====
